---- MODULE Spec2Model ----
(***************************************************************************)
(* A model of clist.h (mp81ss/miniclib): the doubly-linked list with a     *)
(* node pool (pkb/zskb) and a one-entry finger cache (rul/ruly, flags bit  *)
(* 2).  The heap is explicit: nodes are addresses 1..n, NULL is 0, and     *)
(* every handler of the header is a pure operator from a world (heap and   *)
(* list objects) to the world it leaves, translated statement by           *)
(* statement.  size_t is an unsigned word of SIZE_MAX + 1 values.          *)
(*                                                                         *)
(* A dereference of NULL or of memory that is not allocated is undefined   *)
(* behaviour; every build of the header faults there (a read at address 0  *)
(* or at a small offset from it).  A faulting call never returns, so the   *)
(* model keeps the world the call started from and raises `fault`; no      *)
(* operation is issued after that.                                         *)
(***************************************************************************)
EXTENDS Integers, Sequences, FiniteSets, TLC

\* ---------------------------------------------------------------- bounds
MaxLen == 7        \* the longest list a run starts from
MaxVal == 2        \* payload values are 0..MaxVal
MaxOps == 2        \* calls issued after the set-up
SeqOps == 3        \* calls of a run that keeps the shadow list
ExtLen == 3        \* elements of the caller's buffer of a vector
VecOps == 3        \* calls of a run on the vector
FreeLen == 3       \* the longest list of pointers a run starts from
TwinOps == 2       \* calls of a run that keeps a twin of the lists
SIZE_MAX == 15     \* largest value of the modelled size_t

\* ------------------------------------------------------- program constants
NULL == 0
EXIT_SUCCESS == 0
EXIT_FAILURE == 1
CLIST_PAYLOAD_IGNORE == 0
CLIST_PAYLOAD_FREE == 1
IntSize == 4       \* sizeof(int), the element size the examples use
PtrSize == 8       \* sizeof(void*)

Vals == 0..MaxVal
Lists == {1, 2}    \* two list objects: the source and the destination of a splice
NoPayload == 0 - 1 \* a NULL payload pointer
BAD == 0 - 1       \* the result of following a pointer that cannot be followed

\* Unsigned arithmetic of size_t.
SizeT(x) == x % (SIZE_MAX + 1)

\* flags: bit 1 is the payload mode, bit 2 says the finger cache is valid.
CacheValid(flags) == (flags \div 2) % 2 = 1
SetCacheBit(flags) == IF CacheValid(flags) THEN flags ELSE flags + 2
ClearCacheBit(flags) == flags % 2

\* ------------------------------------------------------------------ state
VARIABLES
    nxt,      \* node -> its next pointer
    prv,      \* node -> its prev pointer
    val,      \* node -> its payload (the bytes after the node header)
    alloc,    \* the nodes malloc has handed out and free has not taken back
    ls,       \* list object -> its fields
    released, \* payload pointer -> the times free() was called on it
    fault,    \* a call dereferenced NULL and never returned
    ref,      \* list object -> the reference sequence of payloads
    shadow,   \* the same calls run with the cache bit cleared before every resolve
    track,    \* whether the run keeps `shadow`
    budget,   \* calls the caller may still issue
    last,     \* the last call: its name, arguments and result
    cv,       \* the vector object (cvector_t), its memory and the error callback
    cvref     \* the reference sequence of the vector

vars == <<nxt, prv, val, alloc, ls, released, fault, ref, shadow, track, budget,
          last, cv, cvref>>

\* The world the handlers work on.
World == [nxt |-> nxt, prv |-> prv, val |-> val, alloc |-> alloc, ls |-> ls,
          released |-> released, fault |-> FALSE, nocache |-> FALSE]

Nodes(w) == DOMAIN w.nxt

\* A pointer the program may follow: non-NULL and allocated.
Valid(w, p) == p \in w.alloc

Fault(w) == [w EXCEPT !.fault = TRUE]

\* ------------------------------------------------------------- clist_init
\* clist_init leaves rul and ruly as they were: `rul0`, `ruly0` are what the
\* memory of the list object held.
\* clist_init_ok without the test of type_size against sizeof(void*).
clist_init_ok_any_size(type_size, dynamic) ==
    /\ type_size > 0
    /\ dynamic \in {CLIST_PAYLOAD_IGNORE, CLIST_PAYLOAD_FREE}

clist_init_ok(type_size, dynamic) ==
    /\ type_size > 0
    /\ dynamic \in {CLIST_PAYLOAD_IGNORE, CLIST_PAYLOAD_FREE}
    /\ (dynamic = CLIST_PAYLOAD_IGNORE \/ type_size = PtrSize)

clist_init(type_size, dynamic, rul0, ruly0) ==
    [head |-> NULL, tail |-> NULL, pkb |-> NULL, type_size |-> type_size,
     size |-> 0, zskb |-> 0, flags |-> dynamic % 2, rul |-> rul0, ruly |-> ruly0]

\* clist_new: `made` says whether a list is returned, `obj` is the list
\* object malloc returned, initialised.  No list is returned when malloc
\* refused (`mem` = 0) or clist_init failed and the object was freed.
\* `rul0`, `ruly0` are what the fresh memory held.
clist_new(type_size, dynamic, mem, rul0, ruly0) ==
    IF mem = 0 THEN [made |-> FALSE]
    ELSE IF ~clist_init_ok(type_size, dynamic) THEN [made |-> FALSE]
    ELSE [made |-> TRUE, obj |-> clist_init(type_size, dynamic, rul0, ruly0)]

\* ------------------------- clist_size, clist_empty, clist_head, clist_tail
clist_size(w, l) == IF l # NULL THEN w.ls[l].size ELSE 0

clist_empty(w, l) == IF l # NULL /\ w.ls[l].size > 0 THEN 0 ELSE 1

clist_head(w, l) == IF l # NULL THEN w.ls[l].head ELSE NULL

clist_tail(w, l) == IF l # NULL THEN w.ls[l].tail ELSE NULL

\* --------------------------------------------------------------- clist_go
RECURSIVE WalkNext(_, _, _)
WalkNext(w, node, steps) ==
    IF steps = 0 THEN node
    ELSE IF ~Valid(w, node) THEN BAD
    ELSE WalkNext(w, w.nxt[node], steps - 1)

RECURSIVE WalkPrev(_, _, _)
WalkPrev(w, node, steps) ==
    IF steps = 0 THEN node
    ELSE IF ~Valid(w, node) THEN BAD
    ELSE WalkPrev(w, w.prv[node], steps - 1)

\* GoPlan that, with a valid cache, takes the cache only when it is strictly
\* nearer than the tail.
GoPlanTailOnTie(L, idx) ==
    LET len == L.size
        cidx == L.ruly
    IN  IF CacheValid(L.flags)
        THEN IF idx >= cidx
             THEN IF (idx - cidx) < (len - idx - 1)
                  THEN [node |-> L.rul, steps |-> idx - cidx, direction |-> 0,
                        from |-> "cache"]
                  ELSE [node |-> L.tail, steps |-> len - idx - 1,
                        direction |-> 0 - 1, from |-> "tail"]
             ELSE IF idx <= (cidx - idx)
                  THEN [node |-> L.head, steps |-> idx, direction |-> 0,
                        from |-> "head"]
                  ELSE [node |-> L.rul, steps |-> cidx - idx,
                        direction |-> 0 - 1, from |-> "cache"]
        ELSE IF idx > (len \div 2)
             THEN [node |-> L.tail, steps |-> len - idx - 1, direction |-> 0 - 1,
                   from |-> "tail"]
             ELSE [node |-> L.head, steps |-> idx, direction |-> 0,
                   from |-> "head"]

\* GoPlan that, with a valid cache at or below idx, starts from the cache
\* without looking at the tail.
GoPlanCacheFirst(L, idx) ==
    LET len == L.size
        cidx == L.ruly
    IN  IF CacheValid(L.flags)
        THEN IF idx >= cidx
             THEN [node |-> L.rul, steps |-> idx - cidx, direction |-> 0,
                   from |-> "cache"]
             ELSE IF idx <= (cidx - idx)
                  THEN [node |-> L.head, steps |-> idx, direction |-> 0,
                        from |-> "head"]
                  ELSE [node |-> L.rul, steps |-> cidx - idx,
                        direction |-> 0 - 1, from |-> "cache"]
        ELSE IF idx > (len \div 2)
             THEN [node |-> L.tail, steps |-> len - idx - 1, direction |-> 0 - 1,
                   from |-> "tail"]
             ELSE [node |-> L.head, steps |-> idx, direction |-> 0,
                   from |-> "head"]

\* GoPlan that never starts from the cache.
GoPlanEndsOnly(L, idx) ==
    LET len == L.size
    IN  IF idx > (len \div 2)
        THEN [node |-> L.tail, steps |-> len - idx - 1, direction |-> 0 - 1,
              from |-> "tail"]
        ELSE [node |-> L.head, steps |-> idx, direction |-> 0,
              from |-> "head"]

\* GoPlan that takes the cached index for good whenever it is below the
\* size, without looking at the validity bit.
GoPlanTrustsStale(L, idx) ==
    LET len == L.size
        cidx == L.ruly
    IN  IF cidx < len
        THEN IF idx >= cidx
             THEN IF (idx - cidx) <= (len - idx - 1)
                  THEN [node |-> L.rul, steps |-> idx - cidx, direction |-> 0,
                        from |-> "cache"]
                  ELSE [node |-> L.tail, steps |-> len - idx - 1,
                        direction |-> 0 - 1, from |-> "tail"]
             ELSE IF idx <= (cidx - idx)
                  THEN [node |-> L.head, steps |-> idx, direction |-> 0,
                        from |-> "head"]
                  ELSE [node |-> L.rul, steps |-> cidx - idx,
                        direction |-> 0 - 1, from |-> "cache"]
        ELSE IF idx > (len \div 2)
             THEN [node |-> L.tail, steps |-> len - idx - 1, direction |-> 0 - 1,
                   from |-> "tail"]
             ELSE [node |-> L.head, steps |-> idx, direction |-> 0,
                   from |-> "head"]

\* The anchor clist_go starts from (`from` names it), the links it follows
\* and their direction (0: next, -1: prev), for an index none of the four
\* shortcuts serves.
GoPlan(L, idx) ==
    LET len == L.size
        cidx == L.ruly
    IN  IF CacheValid(L.flags)
        THEN IF idx >= cidx
             THEN IF (idx - cidx) <= (len - idx - 1)
                  THEN [node |-> L.rul, steps |-> idx - cidx, direction |-> 0,
                        from |-> "cache"]
                  ELSE [node |-> L.tail, steps |-> len - idx - 1,
                        direction |-> 0 - 1, from |-> "tail"]
             ELSE IF idx <= (cidx - idx)
                  THEN [node |-> L.head, steps |-> idx, direction |-> 0,
                        from |-> "head"]
                  ELSE [node |-> L.rul, steps |-> cidx - idx,
                        direction |-> 0 - 1, from |-> "cache"]
        ELSE IF idx > (len \div 2)
             THEN [node |-> L.tail, steps |-> len - idx - 1, direction |-> 0 - 1,
                   from |-> "tail"]
             ELSE [node |-> L.head, steps |-> idx, direction |-> 0,
                   from |-> "head"]

\* With([x \in {e} |-> B]) is B with x standing for the value of e: the way
\* the handlers below name the result of a step that later steps read.
With(f) == f[CHOOSE x \in DOMAIN f : TRUE]

\* The loop of clist_go: `plan.steps` links from `plan.node`.
Walk(w, plan) ==
    IF plan.direction = 0 THEN WalkNext(w, plan.node, plan.steps)
    ELSE WalkPrev(w, plan.node, plan.steps)

\* Resolved without its three assignments to the cache.
ResolvedCacheKept(w, l, idx, plan, node) ==
    [w |-> w, node |-> node, steps |-> plan.steps, from |-> plan.from]

\* The end of the general branch of clist_go: the node found becomes the
\* cache.  BAD: the loop followed a pointer that cannot be followed.
Resolved(w, l, idx, plan, node) ==
    IF node = BAD
    THEN [w |-> w, node |-> BAD, steps |-> plan.steps, from |-> plan.from]
    ELSE [w |-> [w EXCEPT !.ls[l].rul = node,
                          !.ls[l].ruly = idx,
                          !.ls[l].flags = SetCacheBit(@)],
          node |-> node, steps |-> plan.steps, from |-> plan.from]

\* A world of the shadow run has the cache bit cleared before it resolves.
Uncached(w, l) ==
    IF w.nocache THEN [w EXCEPT !.ls[l].flags = ClearCacheBit(@)] ELSE w

\* What clist_go gives without entering its general branch.
Direct(w, node) == [w |-> w, node |-> node, steps |-> 0, from |-> "none"]

\* GoFrom whose shortcut for the last index makes the tail the cache.
GoFromTailCached(w, l, idx) ==
    IF ~(idx < w.ls[l].size) THEN Direct(w, NULL)
    ELSE IF idx = 0 THEN Direct(w, w.ls[l].head)
    ELSE IF idx = 1 THEN Direct(w, WalkNext(w, w.ls[l].head, 1))
    ELSE IF idx = w.ls[l].size - 1
         THEN Direct([w EXCEPT !.ls[l].rul = w.ls[l].tail,
                               !.ls[l].ruly = idx,
                               !.ls[l].flags = SetCacheBit(@)], w.ls[l].tail)
    ELSE IF idx = w.ls[l].size - 2
         THEN Direct(w, WalkPrev(w, w.ls[l].tail, 1))
    ELSE Resolved(w, l, idx, GoPlan(w.ls[l], idx),
                  Walk(w, GoPlan(w.ls[l], idx)))

GoFrom(w, l, idx) ==
    IF ~(idx < w.ls[l].size) THEN Direct(w, NULL)
    ELSE IF idx = 0 THEN Direct(w, w.ls[l].head)
    ELSE IF idx = 1 THEN Direct(w, WalkNext(w, w.ls[l].head, 1))
    ELSE IF idx = w.ls[l].size - 1 THEN Direct(w, w.ls[l].tail)
    ELSE IF idx = w.ls[l].size - 2
         THEN Direct(w, WalkPrev(w, w.ls[l].tail, 1))
    ELSE Resolved(w, l, idx, GoPlan(w.ls[l], idx),
                  Walk(w, GoPlan(w.ls[l], idx)))

\* clist_go that drops the cache when it finds no node.
clist_go_miss_invalidates(w, l, idx) ==
    IF l = NULL THEN Direct(w, NULL)
    ELSE IF idx < w.ls[l].size THEN GoFrom(Uncached(w, l), l, idx)
    ELSE Direct([w EXCEPT !.ls[l].flags = ClearCacheBit(@)], NULL)

\* clist_go: [w: the world left, node: the node returned (BAD: the call
\* faulted), steps: the links the loop followed].
clist_go(w, l, idx) ==
    IF l = NULL THEN Direct(w, NULL)
    ELSE GoFrom(Uncached(w, l), l, idx)

\* ------------------------------------------------------ clist_get, clist_set
\* clist_get: the payload of the node clist_go returns (NoPayload stands for
\* the NULL it returns when there is no such node).
clist_get(w, l, idx) ==
    With([g \in {clist_go(w, l, idx)} |->
        IF g.node = BAD
        THEN [w |-> Fault(w), value |-> NoPayload, node |-> BAD,
              steps |-> g.steps, from |-> g.from]
        ELSE [w |-> g.w,
              value |-> IF g.node = NULL THEN NoPayload ELSE g.w.val[g.node],
              node |-> g.node, steps |-> g.steps, from |-> g.from]])

clist_set(w, l, idx, payload) ==
    IF payload = NoPayload THEN w
    ELSE With([g \in {clist_go(w, l, idx)} |->
             IF g.node = BAD THEN Fault(w)
             ELSE IF g.node = NULL THEN g.w
             ELSE [g.w EXCEPT !.val[g.node] = payload]])

\* ----------------------------------------------------- vnut_cl_insert_node
\* InsertCache that leaves the cached index alone when idx is 0.
InsertCacheNoShift(L, idx, node) ==
    IF idx < L.size /\ idx > 0
    THEN [L EXCEPT !.size = SizeT(@ + 1), !.rul = node, !.ruly = idx,
                   !.flags = SetCacheBit(@)]
    ELSE [L EXCEPT !.size = SizeT(@ + 1)]

\* The tail of vnut_cl_insert_node: size++ and the cache.
InsertCache(L, idx, node) ==
    IF idx < L.size /\ idx > 0
    THEN [L EXCEPT !.size = SizeT(@ + 1), !.rul = node, !.ruly = idx,
                   !.flags = SetCacheBit(@)]
    ELSE IF idx = 0
         THEN [L EXCEPT !.size = SizeT(@ + 1), !.ruly = SizeT(@ + 1)]
         ELSE [L EXCEPT !.size = SizeT(@ + 1)]

\* The world after linking `node` in at idx; `fault` is raised when a pointer
\* that cannot be followed was followed.
vnut_cl_insert_node(w, l, idx, node) ==
    With([g1 \in {IF idx < w.ls[l].size THEN clist_go(w, l, idx)
                  ELSE [w |-> w, node |-> NULL, steps |-> 0]} |->
    With([g2 \in {IF idx = 0 THEN [w |-> g1.w, node |-> NULL, steps |-> 0]
                  ELSE clist_go(g1.w, l, SizeT(idx - 1))} |->
        IF g1.node = BAD \/ g2.node = BAD
           \/ (idx # 0 /\ ~Valid(g2.w, g2.node))
           \/ (g1.node # NULL /\ ~Valid(g2.w, g1.node))
        THEN Fault(w)
        ELSE With([next \in {g1.node} |->
             With([wa \in {IF idx = 0
                           THEN [g2.w EXCEPT !.ls[l].head = node]
                           ELSE [g2.w EXCEPT !.nxt[g2.node] = node]} |->
             With([prev \in {IF next # NULL THEN wa.prv[next] ELSE g2.node} |->
             With([wb \in {IF next # NULL
                           THEN [wa EXCEPT !.prv[next] = node]
                           ELSE [wa EXCEPT !.ls[l].tail = node]} |->
                 [wb EXCEPT !.nxt[node] = next,
                            !.prv[node] = prev,
                            !.ls[l] = InsertCache(@, idx, node)]])])])])])])

\* ------------------------------------------------------------------ malloc
\* malloc(sizeof(clist_node_t) + type_size): the lowest free address, or NULL
\* when the allocator refuses (`mem`, the allocations it still grants, is 0)
\* or the heap is exhausted.
Free(w) == Nodes(w) \ w.alloc

\* malloc that never refuses while the heap has room.
malloc_unfailing(w, mem) ==
    IF Free(w) # {}
    THEN CHOOSE n \in Free(w) : \A m \in Free(w) : n <= m
    ELSE NULL

malloc(w, mem) ==
    IF mem > 0 /\ Free(w) # {}
    THEN CHOOSE n \in Free(w) : \A m \in Free(w) : n <= m
    ELSE NULL

\* ------------------------------------------------------------ clist_insert
\* TakeNode that never looks at the pool.
TakeNodeFresh(w, l, mem, garbage) ==
    With([node \in {malloc(w, mem)} |->
        [node |-> node, fresh |-> node # NULL,
         w |-> IF node # NULL
               THEN [w EXCEPT !.alloc = @ \cup {node}, !.val[node] = garbage]
               ELSE w]])

\* The node clist_insert takes, from the pool or from malloc, and the world
\* that leaves.  `garbage` is what freshly allocated memory holds where the
\* payload goes.
TakeNode(w, l, mem, garbage) ==
    IF w.ls[l].zskb > 0
    THEN [node |-> w.ls[l].pkb, fresh |-> FALSE,
          w |-> [w EXCEPT !.ls[l].pkb = w.nxt[w.ls[l].pkb],
                          !.ls[l].zskb = @ - 1]]
    ELSE With([node \in {malloc(w, mem)} |->
             [node |-> node, fresh |-> node # NULL,
              w |-> IF node # NULL
                    THEN [w EXCEPT !.alloc = @ \cup {node}, !.val[node] = garbage]
                    ELSE w]])

\* clist_insert with the bound of its guard one too far.
clist_insert_past_end(w, l, idx, payload, mem, garbage) ==
    IF ~(l # NULL /\ idx <= w.ls[l].size + 1)
    THEN [w |-> w, ok |-> EXIT_FAILURE, fresh |-> FALSE, node |-> NULL]
    ELSE IF w.ls[l].zskb > 0 /\ ~Valid(w, w.ls[l].pkb)
    THEN [w |-> Fault(w), ok |-> EXIT_FAILURE, fresh |-> FALSE, node |-> NULL]
    ELSE With([t \in {TakeNode(w, l, mem, garbage)} |->
        IF t.node = NULL
        THEN [w |-> t.w, ok |-> EXIT_FAILURE, fresh |-> FALSE, node |-> NULL]
        ELSE With([w3 \in {vnut_cl_insert_node(
                               IF payload # NoPayload
                               THEN [t.w EXCEPT !.val[t.node] = payload]
                               ELSE t.w,
                               l, idx, t.node)} |->
                 IF w3.fault
                 THEN [w |-> Fault(w), ok |-> EXIT_FAILURE, fresh |-> FALSE,
                       node |-> NULL]
                 ELSE [w |-> w3, ok |-> EXIT_SUCCESS, fresh |-> t.fresh,
                       node |-> t.node]])])

\* Result: [w, ok, fresh: whether malloc returned the node, node: the node
\* linked in].
clist_insert(w, l, idx, payload, mem, garbage) ==
    IF ~(l # NULL /\ idx <= w.ls[l].size)
    THEN [w |-> w, ok |-> EXIT_FAILURE, fresh |-> FALSE, node |-> NULL]
    ELSE IF w.ls[l].zskb > 0 /\ ~Valid(w, w.ls[l].pkb)
    THEN [w |-> Fault(w), ok |-> EXIT_FAILURE, fresh |-> FALSE, node |-> NULL]
    ELSE With([t \in {TakeNode(w, l, mem, garbage)} |->
        IF t.node = NULL
        THEN [w |-> t.w, ok |-> EXIT_FAILURE, fresh |-> FALSE, node |-> NULL]
        ELSE With([w3 \in {vnut_cl_insert_node(
                               IF payload # NoPayload
                               THEN [t.w EXCEPT !.val[t.node] = payload]
                               ELSE t.w,
                               l, idx, t.node)} |->
                 IF w3.fault
                 THEN [w |-> Fault(w), ok |-> EXIT_FAILURE, fresh |-> FALSE,
                       node |-> NULL]
                 ELSE [w |-> w3, ok |-> EXIT_SUCCESS, fresh |-> t.fresh,
                       node |-> t.node]])])

\* ------------------------------------------------------------- clist_erase
\* EraseNode that hands the node to free() and keeps only the pool count.
EraseNodeFreed(w, l, node) ==
    [w EXCEPT !.alloc = @ \ {node},
              !.ls[l].zskb = SizeT(@ + 1)]

\* One round of the loop of clist_erase: `node` is pushed on the pool.  The
\* FREE mode passes its payload to free() first: `released` counts the calls
\* of free() per payload pointer.
EraseNode(w, l, node) ==
    [w EXCEPT !.released[w.val[node]] =
                  IF w.ls[l].flags % 2 = CLIST_PAYLOAD_FREE THEN @ + 1 ELSE @,
              !.nxt[node] = w.ls[l].pkb,
              !.ls[l].pkb = node,
              !.ls[l].zskb = SizeT(@ + 1)]

RECURSIVE EraseLoop(_, _, _, _)
EraseLoop(w, l, node, count) ==
    IF count = 0 THEN w
    ELSE IF ~Valid(w, node) THEN Fault(w)
    ELSE EraseLoop(EraseNode(w, l, node), l, w.nxt[node], count - 1)

\* The tail of clist_erase: size -= count and the cache.
EraseCache(L, idx, count, next) ==
    IF idx > 0 /\ SizeT(L.size - count - idx) > 1
    THEN [L EXCEPT !.size = SizeT(@ - count), !.rul = next, !.ruly = idx,
                   !.flags = SetCacheBit(@)]
    ELSE IF L.ruly >= idx
         THEN [L EXCEPT !.size = SizeT(@ - count), !.flags = ClearCacheBit(@)]
         ELSE [L EXCEPT !.size = SizeT(@ - count)]

clist_erase(w, l, idx, count) ==
    IF ~(l # NULL /\ SizeT(idx + count) <= w.ls[l].size /\ count > 0) THEN w
    ELSE With([g1 \in {clist_go(w, l, idx)} |->
        IF ~Valid(g1.w, g1.node) THEN Fault(w)
        ELSE With([g2 \in {clist_go(g1.w, l, SizeT(idx + count - 1))} |->
            IF ~Valid(g2.w, g2.node) THEN Fault(w)
            ELSE With([prev \in {g1.w.prv[g1.node]} |->
                 With([next \in {g2.w.nxt[g2.node]} |->
                 With([w3 \in {EraseLoop(g2.w, l, g1.node, count)} |->
                     IF w3.fault
                        \/ (prev # NULL /\ ~Valid(w3, prev))
                        \/ (next # NULL /\ ~Valid(w3, next))
                     THEN Fault(w)
                     ELSE With([w4 \in {IF prev # NULL
                                        THEN [w3 EXCEPT !.nxt[prev] = next]
                                        ELSE [w3 EXCEPT !.ls[l].head = next]} |->
                          With([w5 \in {IF next # NULL
                                        THEN [w4 EXCEPT !.prv[next] = prev]
                                        ELSE [w4 EXCEPT !.ls[l].tail = prev]} |->
                              [w5 EXCEPT !.ls[l] =
                                             EraseCache(@, idx, count, next)]])])
                 ])])])])])

\* ------------------------------------------------------------ clist_resize
\* The growing loop of clist_resize: insert at the tail while ok.
RECURSIVE ResizeGrow(_, _, _, _, _, _)
ResizeGrow(w, l, remaining, elem, mem, garbage) ==
    IF remaining = 0 THEN [w |-> w, ok |-> EXIT_SUCCESS]
    ELSE With([r \in {clist_insert(w, l, w.ls[l].size, elem, mem, garbage)} |->
             IF r.w.fault \/ r.ok # EXIT_SUCCESS THEN [w |-> r.w, ok |-> r.ok]
             ELSE ResizeGrow(r.w, l, remaining - 1, elem,
                             IF r.fresh THEN mem - 1 ELSE mem, garbage)])

clist_resize(w, l, new_size, elem, mem, garbage) ==
    IF l = NULL THEN [w |-> w, ok |-> EXIT_FAILURE]
    ELSE IF new_size = w.ls[l].size THEN [w |-> w, ok |-> EXIT_SUCCESS]
    ELSE IF new_size < w.ls[l].size
    THEN With([w1 \in {clist_erase(w, l, new_size, w.ls[l].size - new_size)} |->
             IF w1.fault THEN [w |-> Fault(w), ok |-> EXIT_FAILURE]
             ELSE [w |-> IF w1.ls[l].ruly >= new_size
                         THEN [w1 EXCEPT !.ls[l].flags = ClearCacheBit(@)]
                         ELSE w1,
                   ok |-> EXIT_SUCCESS]])
    ELSE With([r \in {ResizeGrow(w, l, new_size - w.ls[l].size, elem, mem,
                                 garbage)} |->
             IF r.w.fault THEN [w |-> Fault(w), ok |-> EXIT_FAILURE] ELSE r])

\* ------------------------------------------- push and pop, clear, trim, destroy
clist_push_front(w, l, payload, mem, garbage) ==
    clist_insert(w, l, 0, payload, mem, garbage)

clist_push_back(w, l, payload, mem, garbage) ==
    IF l # NULL THEN clist_insert(w, l, w.ls[l].size, payload, mem, garbage)
    ELSE [w |-> w, ok |-> EXIT_FAILURE, fresh |-> FALSE, node |-> NULL]

clist_pop_front(w, l) == clist_erase(w, l, 0, 1)

clist_pop_back(w, l) ==
    IF l # NULL THEN clist_erase(w, l, SizeT(w.ls[l].size - 1), 1) ELSE w

\* clist_clear without its test of the list: it reads the size through the
\* pointer it is given.
clist_clear_unguarded(w, l) ==
    IF l = NULL THEN Fault(w) ELSE clist_erase(w, l, 0, w.ls[l].size)

clist_clear(w, l) ==
    IF l # NULL THEN clist_erase(w, l, 0, w.ls[l].size) ELSE w

\* The nodes free() is called on by clist_shrink_to_fit, in order; BAD ends the
\* sequence when the walk follows a pointer it cannot follow.
RECURSIVE PoolWalk(_, _, _)
PoolWalk(w, node, fuel) ==
    IF node = NULL THEN <<>>
    ELSE IF ~Valid(w, node) \/ fuel = 0 THEN <<BAD>>
    ELSE <<node>> \o PoolWalk(w, w.nxt[node], fuel - 1)

SeqSet(s) == {s[i] : i \in 1..Len(s)}

\* Freed that leaves the pool head and the pool count as they were.
FreedPoolKept(w, l, freed) ==
    IF BAD \in freed THEN Fault(w)
    ELSE [w EXCEPT !.alloc = @ \ freed]

\* The world after free() of the nodes `freed`; what a freed node held is
\* gone.
Freed(w, l, freed) ==
    IF BAD \in freed THEN Fault(w)
    ELSE [w EXCEPT !.alloc = @ \ freed,
                   !.nxt = [n \in Nodes(w) |-> IF n \in freed THEN NULL ELSE @[n]],
                   !.prv = [n \in Nodes(w) |-> IF n \in freed THEN NULL ELSE @[n]],
                   !.val = [n \in Nodes(w) |-> IF n \in freed THEN 0 ELSE @[n]],
                   !.ls[l].pkb = NULL,
                   !.ls[l].zskb = 0]

clist_shrink_to_fit(w, l) ==
    IF l # NULL
    THEN Freed(w, l, SeqSet(PoolWalk(w, w.ls[l].pkb, Cardinality(Nodes(w)))))
    ELSE w

clist_destroy(w, l) ==
    With([w1 \in {clist_clear(w, l)} |->
        IF w1.fault THEN Fault(w)
        ELSE With([w2 \in {clist_shrink_to_fit(w1, l)} |->
                 IF w2.fault THEN Fault(w) ELSE w2])])

\* ----------------------------------------------------------- clist_foreach
\* The callback is called on each node from the head on: `calls` is the
\* sequence of payloads it was called on.
clist_foreach(w, l) ==
    IF l = NULL THEN [w |-> w, calls |-> <<>>]
    ELSE With([walk \in {PoolWalk(w, w.ls[l].head, Cardinality(Nodes(w)))} |->
             IF BAD \in SeqSet(walk) THEN [w |-> Fault(w), calls |-> <<>>]
             ELSE [w |-> w, calls |-> [i \in 1..Len(walk) |-> w.val[walk[i]]]]])

\* ------------------------------------------------------------ clist_filter
\* A predicate is the set of payloads it returns non-zero for.  `calls` is the
\* sequence of payloads the predicate was called on.
RECURSIVE FilterLoop(_, _, _, _, _, _, _)
FilterLoop(w, l, keep, len, i, del_idx, calls) ==
    IF ~(i < len) THEN [w |-> w, del_idx |-> del_idx, calls |-> calls]
    ELSE With([g \in {clist_go(w, l, SizeT(len - 1 - i))} |->
        IF ~Valid(g.w, g.node)
        THEN [w |-> Fault(w), del_idx |-> del_idx, calls |-> calls]
        ELSE With([v \in {g.w.val[g.node]} |->
             With([w1 \in {IF v \in keep THEN g.w
                           ELSE clist_erase(g.w, l, SizeT(len - 1 - i), 1)} |->
                 IF w1.fault
                 THEN [w |-> w1, del_idx |-> del_idx, calls |-> calls]
                 ELSE FilterLoop(w1, l, keep, len, i + 1,
                                 IF v \in keep THEN del_idx ELSE i,
                                 Append(calls, v))])])])

clist_filter(w, l, keep) ==
    IF l = NULL THEN [w |-> w, calls |-> <<>>]
    ELSE
    With([r \in {FilterLoop(w, l, keep, w.ls[l].size, 0, w.ls[l].size, <<>>)} |->
        IF r.w.fault THEN [w |-> Fault(w), calls |-> r.calls]
        ELSE [w |-> IF r.w.ls[l].ruly >= r.del_idx
                    THEN [r.w EXCEPT !.ls[l].flags = ClearCacheBit(@)]
                    ELSE r.w,
              calls |-> r.calls]])

\* ------------------------------------------------------------ clist_splice
\* SpliceOut that keeps a cache of the source whose index is idx itself.
SpliceOutStrict(w, source, idx, count, first, last_) ==
    With([prev \in {w.prv[first]} |->
    With([next \in {w.nxt[last_]} |->
        IF (idx # 0 /\ ~Valid(w, prev)) \/ (next # NULL /\ ~Valid(w, next))
        THEN Fault(w)
        ELSE With([wa \in {IF idx = 0
                           THEN [w EXCEPT !.ls[source].head = next]
                           ELSE [w EXCEPT !.nxt[prev] = next]} |->
             With([wb \in {IF next = NULL
                           THEN [wa EXCEPT !.ls[source].tail = prev]
                           ELSE [wa EXCEPT !.prv[next] = prev]} |->
             With([wc \in {[wb EXCEPT !.ls[source].size = SizeT(@ - count)]} |->
                 IF wc.ls[source].ruly > idx
                 THEN [wc EXCEPT !.ls[source].flags = ClearCacheBit(@)]
                 ELSE wc])])])])])

\* The first half of clist_splice: the run first..last is unlinked from the
\* source.
SpliceOut(w, source, idx, count, first, last_) ==
    With([prev \in {w.prv[first]} |->
    With([next \in {w.nxt[last_]} |->
        IF (idx # 0 /\ ~Valid(w, prev)) \/ (next # NULL /\ ~Valid(w, next))
        THEN Fault(w)
        ELSE With([wa \in {IF idx = 0
                           THEN [w EXCEPT !.ls[source].head = next]
                           ELSE [w EXCEPT !.nxt[prev] = next]} |->
             With([wb \in {IF next = NULL
                           THEN [wa EXCEPT !.ls[source].tail = prev]
                           ELSE [wa EXCEPT !.prv[next] = prev]} |->
             With([wc \in {[wb EXCEPT !.ls[source].size = SizeT(@ - count)]} |->
                 IF wc.ls[source].ruly >= idx
                 THEN [wc EXCEPT !.ls[source].flags = ClearCacheBit(@)]
                 ELSE wc])])])])])

\* The second half: the run is linked into the destination at pos.
SpliceIn(w, count, dest, pos, first, last_) ==
    With([g3 \in {IF pos = 0 THEN [w |-> w, node |-> NULL, steps |-> 0]
                  ELSE clist_go(w, dest, SizeT(pos - 1))} |->
    With([g4 \in {IF pos < g3.w.ls[dest].size THEN clist_go(g3.w, dest, pos)
                  ELSE [w |-> g3.w, node |-> NULL, steps |-> 0]} |->
        IF (g3.node # NULL /\ ~Valid(g4.w, g3.node))
           \/ (g4.node # NULL /\ ~Valid(g4.w, g4.node))
        THEN Fault(w)
        ELSE With([we \in {[g4.w EXCEPT !.prv[first] = g3.node,
                                        !.nxt[last_] = g4.node]} |->
             With([wf \in {IF g3.node # NULL
                           THEN [we EXCEPT !.nxt[g3.node] = first]
                           ELSE [we EXCEPT !.ls[dest].head = first]} |->
             With([wg \in {IF g4.node # NULL
                           THEN [wf EXCEPT !.prv[g4.node] = last_]
                           ELSE [wf EXCEPT !.ls[dest].tail = last_]} |->
             With([wh \in {[wg EXCEPT !.ls[dest].size = SizeT(@ + count)]} |->
                 IF wh.ls[dest].ruly >= pos
                 THEN [wh EXCEPT !.ls[dest].flags = ClearCacheBit(@)]
                 ELSE wh])])])])])])

clist_splice(w, source, idx, count, dest, pos) ==
    IF ~(/\ source # NULL
         /\ dest # NULL
         /\ source # dest
         /\ SizeT(idx + count) <= w.ls[source].size
         /\ pos <= w.ls[dest].size
         /\ w.ls[source].type_size = w.ls[dest].type_size
         /\ w.ls[source].flags % 2 = w.ls[dest].flags % 2
         /\ count > 0)
    THEN w
    ELSE With([g1 \in {clist_go(w, source, idx)} |->
         With([g2 \in {clist_go(g1.w, source, SizeT(idx + count - 1))} |->
             IF ~Valid(g1.w, g1.node) \/ ~Valid(g2.w, g2.node) THEN Fault(w)
             ELSE With([wd \in {SpliceOut(g2.w, source, idx, count, g1.node,
                                          g2.node)} |->
                 IF wd.fault THEN Fault(w)
                 ELSE With([wi \in {SpliceIn(wd, count, dest, pos, g1.node,
                                             g2.node)} |->
                          IF wi.fault THEN Fault(w) ELSE wi])])])])

\* ------------------------------------------------- what a list looks like
\* The nodes met from `node` on by following f (next or prev), at most `fuel`
\* of them: a chain that loops is cut there.
RECURSIVE Trace(_, _, _)
Trace(f, node, fuel) ==
    IF node = NULL \/ node \notin DOMAIN f \/ fuel = 0 THEN <<>>
    ELSE <<node>> \o Trace(f, f[node], fuel - 1)

Fuel(w) == Cardinality(Nodes(w)) + 1

ForwardOf(w, l) == Trace(w.nxt, w.ls[l].head, Fuel(w))
BackwardOf(w, l) == Trace(w.prv, w.ls[l].tail, Fuel(w))
PoolOf(w, l) == Trace(w.nxt, w.ls[l].pkb, Fuel(w))
ElementsOf(w, l) == [i \in 1..Len(ForwardOf(w, l)) |-> w.val[ForwardOf(w, l)[i]]]

Forward(l) == ForwardOf(World, l)
Backward(l) == BackwardOf(World, l)
Pool(l) == PoolOf(World, l)
Elements(l) == ElementsOf(World, l)

Reverse(s) == [i \in 1..Len(s) |-> s[Len(s) + 1 - i]]

\* The elements of s at the positions m .. n that s has.
Part(s, m, n) ==
    [i \in 1..((IF n > Len(s) THEN Len(s) ELSE n) - m + 1) |-> s[m + i - 1]]

\* ------------------------------------------------------ the reference model
\* A plain sequence subjected to the same calls, by the documented meaning of
\* each: an out-of-range call does nothing.
RefInsert(s, idx, v) ==
    IF idx <= Len(s)
    THEN SubSeq(s, 1, idx) \o <<v>> \o SubSeq(s, idx + 1, Len(s))
    ELSE s

RefErase(s, idx, count) ==
    IF idx + count <= Len(s) /\ count > 0
    THEN SubSeq(s, 1, idx) \o SubSeq(s, idx + count + 1, Len(s))
    ELSE s

RefSet(s, idx, v) ==
    IF idx < Len(s) /\ v # NoPayload THEN [s EXCEPT ![idx + 1] = v] ELSE s

\* Resize to n elements; fill[i] is the i-th element of the list after the
\* call, which is what an appended element is when no fill value is given.
RefResize(s, n, elem, fill) ==
    [i \in 1..n |-> IF i <= Len(s) THEN s[i]
                    ELSE IF elem # NoPayload THEN elem
                    ELSE IF i <= Len(fill) THEN fill[i] ELSE NoPayload]

RECURSIVE RefFilter(_, _)
RefFilter(s, keep) ==
    IF s = <<>> THEN <<>>
    ELSE (IF Head(s) \in keep THEN <<Head(s)>> ELSE <<>>) \o RefFilter(Tail(s), keep)

\* The reference splice: the run source[idx .. idx+count) moves to dest at pos.
RefSplice(rf, source, idx, count, dest, pos) ==
    IF source # dest /\ idx + count <= Len(rf[source]) /\ pos <= Len(rf[dest])
       /\ count > 0
    THEN [rf EXCEPT ![source] = RefErase(@, idx, count),
                    ![dest] = SubSeq(@, 1, pos)
                              \o SubSeq(rf[source], idx + 1, idx + count)
                              \o SubSeq(@, pos + 1, Len(@))]
    ELSE rf

\* ------------------------------------------------------------ the caller
\* The arguments a caller passes.  A run that keeps the shadow list (track)
\* is longer and draws its editing arguments from fewer values.
\* Indexes: every one up to one past the end, and the largest size_t.
IdxIn(l) == {i \in 0..SIZE_MAX : i <= ls[l].size + 1} \cup {SIZE_MAX}
EditIn(l) == IF track THEN {i \in IdxIn(l) : i <= 2} ELSE IdxIn(l)
CntIn == IF track THEN {1, SIZE_MAX} ELSE {1, 2, SIZE_MAX}
SizeIn(l) ==
    {i \in 0..SIZE_MAX :
        IF track THEN i + 1 = ls[l].size \/ i = ls[l].size + 1
        ELSE i = 0 \/ (i + 2 >= ls[l].size /\ i <= ls[l].size + 2)}
Preds == IF track THEN {{0}} ELSE SUBSET Vals

EraseArgs(l) ==
    {[idx |-> i, count |-> c] : i \in EditIn(l), c \in CntIn}
    \cup (IF track THEN {}
          ELSE {[idx |-> 0, count |-> c] : c \in {0, ls[l].size}})

SpliceArgs(s, d) ==
    IF s = d THEN {[idx |-> 0, count |-> 1, pos |-> 0]}
    ELSE {[idx |-> i, count |-> c, pos |-> p] :
             i \in EditIn(s), c \in CntIn, p \in {0, ls[d].size}}
         \cup (IF track THEN {}
               ELSE {[idx |-> 0, count |-> c, pos |-> 0] : c \in {0, ls[s].size}}
                    \cup {[idx |-> 0, count |-> 1, pos |-> p] :
                             p \in {1, SizeT(ls[d].size + 1),
                                    SizeT(ls[d].size - 2)}})

\* The element sizes and modes a caller constructs a list with: none, an
\* int, a pointer; the two modes and two values that are neither.
TypeSizes == IF track THEN {IntSize} ELSE {0, IntSize, PtrSize}
Modes ==
    IF track THEN {CLIST_PAYLOAD_IGNORE}
    ELSE {CLIST_PAYLOAD_IGNORE, CLIST_PAYLOAD_FREE, 2, 3}

\* What an inserting call is given: the payload (NoPayload: none), the
\* allocations malloc grants during the call, and what fresh memory holds.
Plenty == SIZE_MAX
Supply(grants) ==
    {[p |-> MaxVal, mem |-> Plenty, g |-> 0]}
    \cup (IF track THEN {}
          ELSE {[p |-> 0, mem |-> m, g |-> 0] : m \in grants}
               \cup {[p |-> NoPayload, mem |-> Plenty, g |-> MaxVal]})

\* One call has returned (or faulted): the world it left, the reference
\* sequences, and the record of the call.
Return(w2, sh2, ref2, rec) ==
    /\ nxt' = w2.nxt
    /\ prv' = w2.prv
    /\ val' = w2.val
    /\ alloc' = w2.alloc
    /\ ls' = w2.ls
    /\ released' = w2.released
    /\ fault' = w2.fault
    /\ ref' = IF w2.fault THEN ref ELSE ref2
    /\ shadow' = IF track THEN sh2 ELSE shadow
    /\ budget' = budget - 1
    /\ last' = rec
    /\ UNCHANGED <<track, cv, cvref>>

CanCall == ~fault /\ budget > 0

\* The record of a call: a, b, c are its arguments after the list (c of a get
\* names the anchor the resolve started from), ret what
\* it returned, node the node it resolved or linked in, steps the links a
\* resolve followed, sret what the shadow run returned, size the size of the
\* list when the call was made, prev the name of the call before it, cached
\* whether the cache of the list was valid when the call was made.
Rec(op, l, a, b, c, ret, node, steps, sret) ==
    [op |-> op, l |-> l, a |-> a, b |-> b, c |-> c, ret |-> ret, node |-> node,
     steps |-> steps, sret |-> sret, size |-> ls[l].size, prev |-> last.op,
     cached |-> CacheValid(ls[l].flags)]

Get(l, idx) ==
    /\ CanCall
    /\ \E r \in {clist_get(World, l, idx)} :
       LET sr == clist_get(shadow, l, idx)
       IN  Return(r.w, sr.w, ref,
                  Rec("get", l, idx, 0, r.from, r.value, r.node, r.steps,
                      IF track THEN sr.value ELSE r.value))

Set(l, idx, payload) ==
    /\ CanCall
    /\ Return(clist_set(World, l, idx, payload),
              clist_set(shadow, l, idx, payload),
              [ref EXCEPT ![l] = RefSet(@, idx, payload)],
              Rec("set", l, idx, payload, 0, 0, 0, 0, 0))

\* The element an insert adds: the payload given or, with a NULL payload,
\* whatever the node linked in holds (the element is left uninitialised).
Given(payload, r) ==
    IF payload # NoPayload THEN payload
    ELSE IF r.node = NULL THEN NoPayload ELSE r.w.val[r.node]

Insert(l, idx, payload, mem, garbage) ==
    /\ CanCall
    /\ \E r \in {clist_insert(World, l, idx, payload, mem, garbage)} :
       LET sr == clist_insert(shadow, l, idx, payload, mem, garbage)
       IN  Return(r.w, sr.w,
                  IF r.ok = EXIT_SUCCESS
                  THEN [ref EXCEPT ![l] = RefInsert(@, idx, Given(payload, r))]
                  ELSE ref,
                  Rec("insert", l, idx, payload, mem, r.ok, r.node,
                      IF r.fresh THEN 1 ELSE 0, IF track THEN sr.ok ELSE r.ok))

PushFront(l, payload, mem, garbage) ==
    /\ CanCall
    /\ \E r \in {clist_push_front(World, l, payload, mem, garbage)} :
       LET sr == clist_push_front(shadow, l, payload, mem, garbage)
       IN  Return(r.w, sr.w,
                  IF r.ok = EXIT_SUCCESS
                  THEN [ref EXCEPT ![l] = <<Given(payload, r)>> \o @]
                  ELSE ref,
                  Rec("push_front", l, 0, payload, mem, r.ok, r.node,
                      IF r.fresh THEN 1 ELSE 0, IF track THEN sr.ok ELSE r.ok))

PushBack(l, payload, mem, garbage) ==
    /\ CanCall
    /\ \E r \in {clist_push_back(World, l, payload, mem, garbage)} :
       LET sr == clist_push_back(shadow, l, payload, mem, garbage)
       IN  Return(r.w, sr.w,
                  IF r.ok = EXIT_SUCCESS
                  THEN [ref EXCEPT ![l] = Append(@, Given(payload, r))]
                  ELSE ref,
                  Rec("push_back", l, ls[l].size, payload, mem, r.ok, r.node,
                      IF r.fresh THEN 1 ELSE 0, IF track THEN sr.ok ELSE r.ok))

Erase(l, idx, count) ==
    /\ CanCall
    /\ Return(clist_erase(World, l, idx, count),
              clist_erase(shadow, l, idx, count),
              [ref EXCEPT ![l] = RefErase(@, idx, count)],
              Rec("erase", l, idx, count, 0, 0, 0, 0, 0))

PopFront(l) ==
    /\ CanCall
    /\ Return(clist_pop_front(World, l), clist_pop_front(shadow, l),
              [ref EXCEPT ![l] = IF @ = <<>> THEN @ ELSE Tail(@)],
              Rec("pop_front", l, 0, 1, 0, 0, 0, 0, 0))

PopBack(l) ==
    /\ CanCall
    /\ Return(clist_pop_back(World, l), clist_pop_back(shadow, l),
              [ref EXCEPT ![l] = IF @ = <<>> THEN @ ELSE SubSeq(@, 1, Len(@) - 1)],
              Rec("pop_back", l, 0, 1, 0, 0, 0, 0, 0))

Resize(l, new_size, elem, mem, garbage) ==
    /\ CanCall
    /\ \E r \in {clist_resize(World, l, new_size, elem, mem, garbage)} :
       LET sr == clist_resize(shadow, l, new_size, elem, mem, garbage)
       IN  Return(r.w, sr.w,
                  [ref EXCEPT ![l] =
                      RefResize(@, IF r.ok = EXIT_SUCCESS THEN new_size
                                   ELSE r.w.ls[l].size,
                                elem, ElementsOf(r.w, l))],
                  Rec("resize", l, new_size, elem, mem, r.ok, 0, 0,
                      IF track THEN sr.ok ELSE r.ok))

Clear(l) ==
    /\ CanCall
    /\ Return(clist_clear(World, l), clist_clear(shadow, l),
              [ref EXCEPT ![l] = <<>>],
              Rec("clear", l, 0, 0, 0, 0, 0, 0, 0))

ShrinkToFit(l) ==
    /\ CanCall
    /\ Return(clist_shrink_to_fit(World, l), clist_shrink_to_fit(shadow, l), ref,
              Rec("shrink_to_fit", l, 0, ls[l].zskb, 0, 0, 0, 0, 0))

Destroy(l) ==
    /\ CanCall
    /\ Return(clist_destroy(World, l), clist_destroy(shadow, l),
              [ref EXCEPT ![l] = <<>>],
              Rec("destroy", l, 0, 0, 0, 0, 0, 0, 0))

Filter(l, keep) ==
    /\ CanCall
    /\ \E r \in {clist_filter(World, l, keep)} :
       LET sr == clist_filter(shadow, l, keep)
       IN  Return(r.w, sr.w,
                  [ref EXCEPT ![l] = RefFilter(@, keep)],
                  Rec("filter", l, keep, 0, 0, r.calls, 0, 0,
                      IF track THEN sr.calls ELSE r.calls))

Splice(source, idx, count, dest, pos) ==
    /\ CanCall
    /\ Return(clist_splice(World, source, idx, count, dest, pos),
              clist_splice(shadow, source, idx, count, dest, pos),
              IF ls[source].type_size = ls[dest].type_size
                 /\ ls[source].flags % 2 = ls[dest].flags % 2
              THEN RefSplice(ref, source, idx, count, dest, pos)
              ELSE ref,
              Rec("splice", source, idx, count, dest, 0, pos, 0, 0))

\* A list object the caller may construct a list in: one never filled, or
\* torn down by clist_destroy.
TornDown(l) ==
    /\ ls[l].head = NULL /\ ls[l].tail = NULL /\ ls[l].pkb = NULL
    /\ ls[l].size = 0 /\ ls[l].zskb = 0

\* The list object l after a clist_init that returned `ok`.
Constructed(w, l, ok, type_size, dynamic) ==
    IF ok THEN [w EXCEPT !.ls[l] = clist_init(type_size, dynamic, @.rul, @.ruly)]
    ELSE w

InitList(l, type_size, dynamic) ==
    /\ CanCall
    /\ TornDown(l)
    /\ \E ok \in {clist_init_ok(type_size, dynamic)} :
       Return(Constructed(World, l, ok, type_size, dynamic),
              Constructed(shadow, l, ok, type_size, dynamic), ref,
              Rec("clist_init", l, type_size, dynamic, 0,
                  IF ok THEN EXIT_SUCCESS ELSE EXIT_FAILURE, 0, 0,
                  IF ok THEN EXIT_SUCCESS ELSE EXIT_FAILURE))

\* clist_new: l is where the new list object lies when there is one; ret is
\* the pointer returned, l or NULL.
NewList(l, type_size, dynamic, mem, u) ==
    /\ CanCall
    /\ TornDown(l)
    /\ \E r \in {clist_new(type_size, dynamic, mem, u.rul, u.ruly)} :
       Return(IF r.made THEN [World EXCEPT !.ls[l] = r.obj] ELSE World,
              IF r.made THEN [shadow EXCEPT !.ls[l] = r.obj] ELSE shadow, ref,
              Rec("clist_new", l, type_size, dynamic, mem,
                  IF r.made THEN l ELSE NULL, 0, 0,
                  IF r.made THEN l ELSE NULL))

\* The functions of the interface a caller may hand a NULL list; splice is
\* handed it as the source (with list 1 the destination) or as the
\* destination (with list 1 the source).
NullCalls ==
    {"size", "empty", "head", "tail", "go", "get", "set", "insert",
     "push_front", "push_back", "resize", "erase", "pop_front", "pop_back",
     "clear", "shrink_to_fit", "destroy", "foreach", "filter", "splice_from",
     "splice_to"}

\* The call of function f with NULL for the list: the world it leaves and
\* what it returns (0 for a function that returns nothing).
CallNull(w, f) ==
    CASE f = "size" -> [w |-> w, ret |-> clist_size(w, NULL)]
      [] f = "empty" -> [w |-> w, ret |-> clist_empty(w, NULL)]
      [] f = "head" -> [w |-> w, ret |-> clist_head(w, NULL)]
      [] f = "tail" -> [w |-> w, ret |-> clist_tail(w, NULL)]
      [] f = "go" ->
            With([g \in {clist_go(w, NULL, 1)} |-> [w |-> g.w, ret |-> g.node]])
      [] f = "get" ->
            With([g \in {clist_get(w, NULL, 1)} |-> [w |-> g.w, ret |-> g.value]])
      [] f = "set" -> [w |-> clist_set(w, NULL, 1, MaxVal), ret |-> 0]
      [] f = "insert" ->
            With([r \in {clist_insert(w, NULL, 0, MaxVal, Plenty, 0)} |->
                [w |-> r.w, ret |-> r.ok]])
      [] f = "push_front" ->
            With([r \in {clist_push_front(w, NULL, MaxVal, Plenty, 0)} |->
                [w |-> r.w, ret |-> r.ok]])
      [] f = "push_back" ->
            With([r \in {clist_push_back(w, NULL, MaxVal, Plenty, 0)} |->
                [w |-> r.w, ret |-> r.ok]])
      [] f = "resize" ->
            With([r \in {clist_resize(w, NULL, 1, MaxVal, Plenty, 0)} |->
                [w |-> r.w, ret |-> r.ok]])
      [] f = "erase" -> [w |-> clist_erase(w, NULL, 0, 1), ret |-> 0]
      [] f = "pop_front" -> [w |-> clist_pop_front(w, NULL), ret |-> 0]
      [] f = "pop_back" -> [w |-> clist_pop_back(w, NULL), ret |-> 0]
      [] f = "clear" -> [w |-> clist_clear(w, NULL), ret |-> 0]
      [] f = "shrink_to_fit" -> [w |-> clist_shrink_to_fit(w, NULL), ret |-> 0]
      [] f = "destroy" -> [w |-> clist_destroy(w, NULL), ret |-> 0]
      [] f = "foreach" -> [w |-> clist_foreach(w, NULL).w, ret |-> 0]
      [] f = "filter" -> [w |-> clist_filter(w, NULL, {}).w, ret |-> 0]
      [] f = "splice_from" -> [w |-> clist_splice(w, NULL, 0, 1, 1, 0), ret |-> 0]
      [] f = "splice_to" -> [w |-> clist_splice(w, 1, 0, 1, NULL, 0), ret |-> 0]

\* A call with NULL for the list; its record names the function in `a`.
NullList(f) ==
    /\ CanCall
    /\ \E r \in {CallNull(World, f)} :
       Return(r.w, CallNull(shadow, f).w, ref,
              [op |-> "null", l |-> NULL, a |-> f, b |-> 0, c |-> 0,
               ret |-> r.ret, node |-> 0, steps |-> 0, sret |-> r.ret,
               size |-> 0, prev |-> last.op, cached |-> FALSE])

\* ================================================================ cvector.h
\* The vector is modelled by elements: `buf` is the memory at p, one cell per
\* element, and f is the distance of the pointer f from p in elements (the
\* code keeps it a multiple of the element size).  `cb` says whether an error
\* callback is set; `err` lists the arguments the callback was called with
\* during the last call and `ok` says whether that call did what it was asked.
\* `freed` counts the calls of free() per element value.
CVECTOR_MIN_SIZE == 8     \* bytes of a default vector: the build defines it (4096
                          \* when it does not), here to a size a cv_ui can hold
CVECTOR_DEFAULT_LEN == 0
CVECTOR_DATA == 0
CVECTOR_FREE_PTR == 1
CharSize == 1             \* sizeof(char)
Buffer == 1               \* the address of the memory of a vector

FreesPtr(v) == v.d % 2 = 1
External(v) == (v.d \div 2) % 2 = 1

\* The cell of element i (from 1), or NoPayload past the end of the memory.
At(v, i) == IF i \in 1..Len(v.buf) THEN v.buf[i] ELSE NoPayload

\* A call starts.
Enter(v) == [v EXCEPT !.err = <<>>, !.ok = TRUE]

\* (*cvector_error_callback)(failed_len), when a callback is set.
Report(v, failed_len) ==
    [v EXCEPT !.ok = FALSE,
              !.err = IF v.cb THEN Append(@, failed_len) ELSE @]

\* malloc or realloc of `bytes` bytes succeeds while the heap has `room`.
Allocates(bytes, room) == bytes <= room

\* free() of the elements idx+1 .. idx+len of a vector of pointers.
FreeElems(v, idx, len) ==
    IF FreesPtr(v)
    THEN [v EXCEPT !.freed =
             [x \in DOMAIN @ |->
                 @[x] + Cardinality({i \in (idx + 1)..(idx + len) : At(v, i) = x})]]
    ELSE v

\* memcpy to the pointer `off` elements from p.  A write past the end of the
\* memory is undefined: `ub` says whether the program stops there or the
\* write lands in memory that is not the vector's.
Store(v, off, elem, ub) ==
    IF off < Len(v.buf) THEN [v EXCEPT !.buf[off + 1] = elem]
    ELSE IF ub = "crash" THEN [v EXCEPT !.fault = TRUE]
    ELSE v

\* -------------------------------------------------- cvector_set_callback
cvector_set_callback(v, error_callback) == [v EXCEPT !.cb = error_callback]

\* ------------------------------------------------------ cvector_init_ext
NoVector(v) == [v EXCEPT !.p = NULL, !.buf = <<>>]

\* cvector_init_ext without the test of initial_size against reserved.
cvector_init_ext_any_size(v, buffer, type_size, reserved, initial_size, dynamic) ==
    IF type_size = 0 \/ (dynamic = CVECTOR_FREE_PTR /\ type_size # PtrSize)
    THEN Report(NoVector(v), type_size)
    ELSE IF reserved > SIZE_MAX \div type_size
    THEN Report(NoVector([v EXCEPT !.c = SIZE_MAX \div type_size]), reserved)
    ELSE [v EXCEPT !.c = SIZE_MAX \div type_size,
                   !.p = Buffer,
                   !.buf = buffer,
                   !.f = initial_size,
                   !.n = initial_size,
                   !.m = reserved,
                   !.t = type_size,
                   !.d = (dynamic % 2) + 2]

cvector_init_ext(v, buffer, type_size, reserved, initial_size, dynamic) ==
    IF type_size = 0 \/ (dynamic = CVECTOR_FREE_PTR /\ type_size # PtrSize)
    THEN Report(NoVector(v), type_size)
    ELSE IF initial_size > reserved
    THEN Report(NoVector(v), initial_size)
    ELSE IF reserved > SIZE_MAX \div type_size
    THEN Report(NoVector([v EXCEPT !.c = SIZE_MAX \div type_size]), reserved)
    ELSE [v EXCEPT !.c = SIZE_MAX \div type_size,
                   !.p = Buffer,
                   !.buf = buffer,
                   !.f = initial_size,
                   !.n = initial_size,
                   !.m = reserved,
                   !.t = type_size,
                   !.d = (dynamic % 2) + 2]

\* ------------------------------------------------ vnut_init, cvector_init
DefaultLen(type_size) ==
    IF type_size > CVECTOR_MIN_SIZE THEN 1 ELSE CVECTOR_MIN_SIZE \div type_size

\* [v: the vector left, error: the value returned]; `g` is what fresh memory
\* holds.
vnut_init(v, type_size, num_elems, dynamic, room, g) ==
    IF type_size = 0 \/ (dynamic = CVECTOR_FREE_PTR /\ type_size # PtrSize)
    THEN [v |-> NoVector(v), error |-> type_size]
    ELSE IF num_elems > SIZE_MAX \div type_size
    THEN [v |-> NoVector([v EXCEPT !.c = SIZE_MAX \div type_size]),
          error |-> num_elems]
    ELSE With([num \in {IF num_elems = CVECTOR_DEFAULT_LEN
                        THEN DefaultLen(type_size) ELSE num_elems} |->
             IF Allocates(SizeT(num * type_size), room)
             THEN [v |-> [v EXCEPT !.c = SIZE_MAX \div type_size,
                                   !.p = Buffer,
                                   !.buf = [i \in 1..(SizeT(num * type_size)
                                                       \div type_size) |-> g],
                                   !.f = 0,
                                   !.n = 0,
                                   !.m = num,
                                   !.t = type_size,
                                   !.d = dynamic % 2],
                   error |-> 0]
             ELSE [v |-> NoVector([v EXCEPT !.c = SIZE_MAX \div type_size]),
                   error |-> num]])

cvector_init(v, type_size, num_elems, dynamic, room, g) ==
    With([r \in {vnut_init(v, type_size, num_elems, dynamic, room, g)} |->
        IF r.v.p = NULL THEN Report(r.v, r.error) ELSE r.v])

\* ---------------------------------------------------------- cvector_clear
cvector_clear(v) ==
    [FreeElems(v, 0, v.n) EXCEPT !.f = 0, !.n = 0]

\* ----------------------------------------------------------- vnut_reserve
\* The number of elements vnut_reserve asks realloc for first.
Trying(v, new_size) ==
    With([first \in {IF v.n < v.c \div 4 THEN SizeT(v.n * 2)
                     ELSE IF SizeT(v.n + v.n \div 8) > v.c
                             \/ SizeT(v.n + v.n \div 8) = v.n
                          THEN new_size
                          ELSE SizeT(v.n + v.n \div 8)} |->
        IF first < new_size THEN new_size ELSE first])

\* The memory realloc returns for k elements: what the old one held, then
\* whatever fresh memory holds.
Realloc(v, k, g) ==
    [i \in 1..(SizeT(k * v.t) \div v.t) |->
        IF i <= Len(v.buf) THEN v.buf[i] ELSE g]

\* vnut_reserve that takes every vector for one on the heap.
vnut_reserve_any(v, new_size, room, g) ==
    With([trying \in {Trying(v, new_size)} |->
    With([got \in {IF Allocates(SizeT(trying * v.t), room) THEN trying
                   ELSE IF trying > new_size
                           /\ Allocates(SizeT(new_size * v.t), room)
                        THEN new_size
                        ELSE 0} |->
        IF got = 0 THEN [v |-> v, ok |-> FALSE]
        ELSE [v |-> [v EXCEPT !.buf = Realloc(v, got, g),
                              !.f = v.n,
                              !.m = got],
              ok |-> TRUE]])])

\* [v: the vector left, ok: whether the memory was obtained]; 0 stands for
\* the NULL of a realloc that failed.
vnut_reserve(v, new_size, room, g) ==
    IF External(v) THEN [v |-> v, ok |-> FALSE]
    ELSE With([trying \in {Trying(v, new_size)} |->
         With([got \in {IF Allocates(SizeT(trying * v.t), room) THEN trying
                        ELSE IF trying > new_size
                                /\ Allocates(SizeT(new_size * v.t), room)
                             THEN new_size
                             ELSE 0} |->
             IF got = 0 THEN [v |-> v, ok |-> FALSE]
             ELSE [v |-> [v EXCEPT !.buf = Realloc(v, got, g),
                                   !.f = v.n,
                                   !.m = got],
                   ok |-> TRUE]])])

\* ------------------------------------- cvector_push_back, cvector_pop_back
cvector_push_back(v, elem, room, g, ub) ==
    With([r \in {IF v.n = v.m
                 THEN IF v.n < v.c THEN vnut_reserve(v, SizeT(v.n + 1), room, g)
                      ELSE [v |-> v, ok |-> FALSE]
                 ELSE [v |-> v, ok |-> TRUE]} |->
        IF r.ok
        THEN [Store(r.v, r.v.f, elem, ub) EXCEPT !.f = SizeT(@ + 1),
                                                 !.n = SizeT(@ + 1)]
        ELSE Report(v, SizeT(v.n + 1))])

cvector_pop_back(v) ==
    [FreeElems(v, SizeT(v.n - 1), 1) EXCEPT !.n = SizeT(@ - 1),
                                            !.f = SizeT(@ - 1)]

\* ------------------------------------------------------ cvector_set_elems
\* `elem` points to an array of elements, of which only the first is read
\* when is_same_element is not 0; NoElem is the NULL pointer.
NoElem == <<>>

cvector_set_elems(v, idx, len, elem, is_same_element) ==
    [v EXCEPT !.buf =
        [i \in 1..Len(@) |->
            IF idx < i /\ i <= idx + len
            THEN IF is_same_element # 0 THEN elem[1] ELSE elem[i - idx]
            ELSE @[i]]]

\* memmove of the elements idx+1 .. n by len elements towards the end.
MoveUp(v, idx, len) ==
    [v EXCEPT !.buf =
        [i \in 1..Len(@) |->
            IF idx + len < i /\ i <= v.n + len THEN @[i - len] ELSE @[i]]]

\* --------------------------------------- cvector_insert, cvector_insert_n
cvector_insert(v, idx, elem, room, g) ==
    With([r \in {IF v.n = v.m
                 THEN IF v.n < v.c THEN vnut_reserve(v, SizeT(v.n + 1), room, g)
                      ELSE [v |-> v, ok |-> FALSE]
                 ELSE [v |-> v, ok |-> TRUE]} |->
        IF r.ok
        THEN [(IF idx < v.n THEN MoveUp(r.v, idx, 1) ELSE r.v)
                  EXCEPT !.buf = [i \in 1..Len(@) |->
                                     IF i = idx + 1 THEN elem ELSE @[i]],
                         !.n = SizeT(@ + 1),
                         !.f = SizeT(@ + 1)]
        ELSE Report(v, SizeT(v.n + 1))])

cvector_insert_n(v, idx, len, elem, is_same_element, room, g) ==
    IF ~(len > 0) THEN v
    ELSE IF ~(SizeT(v.n + len) > v.n /\ SizeT(v.n + len) <= v.c)
    THEN Report(v, len)
    ELSE With([r \in {IF SizeT(v.n + len) <= v.m THEN [v |-> v, ok |-> TRUE]
                      ELSE vnut_reserve(v, SizeT(v.n + len), room, g)} |->
        IF r.ok
        THEN With([moved \in {IF idx < v.n THEN MoveUp(r.v, idx, len)
                              ELSE r.v} |->
                 [(IF elem # NoElem
                   THEN cvector_set_elems(moved, idx, len, elem, is_same_element)
                   ELSE moved)
                      EXCEPT !.n = SizeT(@ + len), !.f = SizeT(@ + len)]])
        ELSE Report(v, len)])

\* ------------------------------------- cvector_erase, cvector_erase_fast
cvector_erase(v, idx, len) ==
    IF ~(len > 0) THEN v
    ELSE [FreeElems(v, idx, len) EXCEPT
             !.buf = IF SizeT(idx + len) < v.n
                     THEN [i \in 1..Len(@) |->
                              IF idx < i /\ i <= v.n - len /\ i + len <= Len(@)
                              THEN @[i + len] ELSE @[i]]
                     ELSE @,
             !.n = SizeT(@ - len),
             !.f = SizeT(@ - len)]

\* cvector_erase_fast taking the elements that fill the hole from right
\* after it.
cvector_erase_fast_from_hole(v, idx, len) ==
    IF ~(len > 0) THEN v
    ELSE With([to_move \in {IF SizeT(v.n - SizeT(idx + len)) < len
                            THEN SizeT(v.n - SizeT(idx + len)) ELSE len} |->
        [FreeElems(v, idx, len) EXCEPT
             !.buf = IF SizeT(idx + len) < v.n
                     THEN [i \in 1..Len(@) |->
                              IF idx < i /\ i <= idx + to_move
                                 /\ i + len <= Len(@)
                              THEN @[i + len] ELSE @[i]]
                     ELSE @,
             !.n = SizeT(@ - len),
             !.f = SizeT(@ - len)]])

cvector_erase_fast(v, idx, len) ==
    IF ~(len > 0) THEN v
    ELSE With([to_move \in {IF SizeT(v.n - SizeT(idx + len)) < len
                            THEN SizeT(v.n - SizeT(idx + len)) ELSE len} |->
        [FreeElems(v, idx, len) EXCEPT
             !.buf = IF SizeT(idx + len) < v.n
                     THEN [i \in 1..Len(@) |->
                              IF idx < i /\ i <= idx + to_move
                                 /\ v.n - to_move + (i - idx) \in 1..Len(@)
                              THEN @[v.n - to_move + (i - idx)] ELSE @[i]]
                     ELSE @,
             !.n = SizeT(@ - len),
             !.f = SizeT(@ - len)]])

\* --------------------------------------- cvector_resize, cvector_reserve
cvector_resize(v, new_size, elem, room, g) ==
    IF new_size = v.n THEN v
    ELSE IF new_size > v.n
    THEN cvector_insert_n(v, v.n, new_size - v.n, elem, 1, room, g)
    ELSE cvector_erase(v, new_size, v.n - new_size)

cvector_reserve(v, length, room, g) ==
    IF ~(length > v.m) THEN v
    ELSE With([r \in {IF length <= v.c THEN vnut_reserve(v, length, room, g)
                      ELSE [v |-> v, ok |-> FALSE]} |->
             IF r.ok THEN r.v ELSE Report(v, length)])

\* -------------------------------------------------- cvector_shrink_to_fit
cvector_shrink_to_fit(v, room) ==
    IF ~(v.n < v.m /\ ~External(v)) THEN v
    ELSE With([total \in {SizeT((IF v.n = 0 THEN 1 ELSE v.n) * v.t)} |->
             IF Allocates(total, room)
             THEN [v EXCEPT !.buf = [i \in 1..(total \div v.t) |-> At(v, i)],
                            !.m = total \div v.t,
                            !.f = total \div v.t]
             ELSE v])

\* --------------------------------------------------------- specifications
\* What the memory of a list object holds where clist_init writes nothing.
Uninit == {[rul |-> NULL, ruly |-> 0], [rul |-> 1, ruly |-> SIZE_MAX]}

NoCall ==
    [op |-> "init", l |-> 0, a |-> 0, b |-> 0, c |-> 0, ret |-> 0, node |-> 0,
     steps |-> 0, sret |-> 0, size |-> 0, prev |-> "init", cached |-> FALSE]

\* The heap before any allocation, with two lists just initialised by
\* clist_init(sizeof(int), CLIST_PAYLOAD_IGNORE).
Fresh(heap, u) ==
    [nxt |-> [n \in 1..heap |-> NULL],
     prv |-> [n \in 1..heap |-> NULL],
     val |-> [n \in 1..heap |-> 0],
     alloc |-> {},
     ls |-> [l \in Lists |-> clist_init(IntSize, CLIST_PAYLOAD_IGNORE, u.rul, u.ruly)],
     released |-> [v \in Vals |-> 0],
     fault |-> FALSE,
     nocache |-> FALSE]

\* The set-up of a run: k calls of push_back on list l, of the payloads
\* 0, 1, .., MaxVal, 0, 1, ..
RECURSIVE Fill(_, _, _, _)
Fill(w, l, k, i) ==
    IF i >= k THEN w
    ELSE Fill(clist_push_back(w, l, i % (MaxVal + 1), Plenty, 0).w, l, k, i + 1)

FillRef(k) == [i \in 1..k |-> (i - 1) % (MaxVal + 1)]

Built(n, m, u) == Fill(Fill(Fresh(MaxLen + 3, u), 1, n, 0), 2, m, 0)

\* A vector object before any call on it, with an error callback set.
NewVector ==
    [p |-> NULL, f |-> 0, n |-> 0, m |-> 0, t |-> 0, c |-> 0, d |-> 0,
     buf |-> <<>>, cb |-> TRUE, freed |-> [x \in Vals |-> 0], err |-> <<>>,
     ok |-> TRUE, fault |-> FALSE]

\* A run on the lists leaves the vector object alone.
Idle == cv = NewVector /\ cvref = <<>>

\* A run starts: `sh` is the shadow world of a run that keeps one (tr).
Start(w, sh, tr, n, m, b) ==
    /\ nxt = w.nxt
    /\ prv = w.prv
    /\ val = w.val
    /\ alloc = w.alloc
    /\ ls = w.ls
    /\ released = w.released
    /\ fault = FALSE
    /\ ref = [l \in Lists |-> IF l = 1 THEN FillRef(n) ELSE FillRef(m)]
    /\ shadow = sh
    /\ track = tr
    /\ budget = b
    /\ last = NoCall

\* SpecFree: two lists of pointers made in the free-on-remove mode, list 1
\* of 0..FreeLen elements and list 2 of 0 or 2, then MaxOps calls.
FreshFree(heap) ==
    [Fresh(heap, [rul |-> NULL, ruly |-> 0]) EXCEPT
        !.ls = [l \in Lists |-> clist_init(PtrSize, CLIST_PAYLOAD_FREE, NULL, 0)]]

BuiltFree(n, m) == Fill(Fill(FreshFree(MaxLen + 3), 1, n, 0), 2, m, 0)

InitFree ==
    \E n \in 0..FreeLen, m \in {0, 2} :
        Start(BuiltFree(n, m), NULL, FALSE, n, m, MaxOps) /\ Idle

\* Spec: list 1 of 0..MaxLen elements and list 2 of 0 or 2, as the set-up
\* leaves them, then MaxOps calls, any of the interface with any arguments.
Init ==
    \E n \in 0..MaxLen, m \in {0, 2}, u \in Uninit :
        Start(Built(n, m, u), NULL, FALSE, n, m, MaxOps) /\ Idle

\* SpecSeq: list 1 of 3 or MaxLen elements and list 2 of 0 or 2, then SeqOps
\* calls, each run also on the shadow list.
InitSeq ==
    \E n \in {3, MaxLen}, m \in {0, 2}, u \in {[rul |-> NULL, ruly |-> 0]} :
        /\ Start(Built(n, m, u), [Built(n, m, u) EXCEPT !.nocache = TRUE], TRUE,
                 n, m, SeqOps)
        /\ Idle

\* The lists the caller may pass: none once a call has not returned or the
\* run has issued its calls.
Live == IF CanCall THEN Lists ELSE {}

\* The functions a run hands NULL: all of them, one in a run that keeps the
\* shadow list.
NullIn ==
    IF ~CanCall THEN {} ELSE IF track THEN {"clear"} ELSE NullCalls

Next ==
    \/ \E l \in Live : \E idx \in IdxIn(l) : Get(l, idx)
    \/ \E l \in Live : \E idx \in EditIn(l) : Set(l, idx, MaxVal)
    \/ \E l \in Live : Set(l, 0, NoPayload)
    \/ \E l \in Live : \E idx \in EditIn(l), s \in Supply({0}) :
           Insert(l, idx, s.p, s.mem, s.g)
    \/ \E l \in Live, s \in Supply({0}) : PushFront(l, s.p, s.mem, s.g)
    \/ \E l \in Live, s \in Supply({0}) : PushBack(l, s.p, s.mem, s.g)
    \/ \E l \in Live : \E a \in EraseArgs(l) : Erase(l, a.idx, a.count)
    \/ \E l \in Live : PopFront(l)
    \/ \E l \in Live : PopBack(l)
    \/ \E l \in Live : \E n \in SizeIn(l), s \in Supply({0, 1}) :
           Resize(l, n, s.p, s.mem, s.g)
    \/ \E l \in Live : Clear(l)
    \/ \E l \in Live : ShrinkToFit(l)
    \/ \E l \in Live : Destroy(l)
    \/ \E l \in Live, keep \in Preds : Filter(l, keep)
    \/ \E s \in Live, d \in Lists : \E a \in SpliceArgs(s, d) :
           Splice(s, a.idx, a.count, d, a.pos)
    \/ \E l \in Live, ts \in TypeSizes, dyn \in Modes : InitList(l, ts, dyn)
    \/ \E l \in Live, ts \in TypeSizes, dyn \in Modes, mem \in {0, 1}, u \in Uninit :
           NewList(l, ts, dyn, mem, u)
    \/ \E f \in NullIn : NullList(f)

Spec == Init /\ [][Next]_vars

SpecSeq == InitSeq /\ [][Next]_vars

SpecFree == InitFree /\ [][Next]_vars

\* ------------------------------------------------- the calls on a vector
\* The elements of the vector, first to last.
CvView(v) == [i \in 1..v.n |-> At(v, i)]

\* The reference sequence with the elements xs put in at idx.
RefInsertN(s, idx, xs) == Part(s, 1, idx) \o xs \o Part(s, idx + 1, Len(s))

\* What the caller hands the calls on a vector: elements, arrays of
\* elements, the bytes the heap still has, what fresh memory holds.
CvVals == 1..MaxVal
CvArray == [i \in 1..SIZE_MAX |-> 1 + (i % MaxVal)]
Rooms == {0, 3, SIZE_MAX}
Outcomes == {"crash", "stray"}

\* One call on the vector has returned (or the program has stopped in it).
CvReturn(v2, ref2, rec) ==
    /\ cv' = IF v2.fault THEN [cv EXCEPT !.fault = TRUE] ELSE v2
    /\ cvref' = IF v2.fault THEN cvref ELSE ref2
    /\ fault' = v2.fault
    /\ budget' = budget - 1
    /\ last' = rec
    /\ UNCHANGED <<nxt, prv, val, alloc, ls, released, ref, shadow, track>>

\* The record of a call on the vector: a, b, c are its arguments, size the
\* size of the vector when the call was made.
CvRec(op, a, b, c) ==
    [op |-> op, l |-> 0, a |-> a, b |-> b, c |-> c, ret |-> 0, node |-> 0,
     steps |-> 0, sret |-> 0, size |-> cv.n, prev |-> last.op, cached |-> FALSE]

CvLive == CanCall /\ cv.p # NULL

CvSetCallback(error_callback) ==
    /\ CanCall
    /\ cv.cb # error_callback
    /\ CvReturn(cvector_set_callback(Enter(cv), error_callback), cvref,
                CvRec("cvector_set_callback", error_callback, 0, 0))

\* cvector_init_ext on a buffer of `reserved` elements that holds 0, 1, ..
CvInitExt(type_size, reserved, initial_size, dynamic) ==
    /\ CanCall
    /\ cv.p = NULL \/ External(cv)
    /\ \E r \in {cvector_init_ext(Enter(cv), FillRef(reserved), type_size,
                                  reserved, initial_size, dynamic)} :
       CvReturn(r, IF r.ok THEN Part(FillRef(reserved), 1, initial_size) ELSE <<>>,
                [CvRec("cvector_init_ext", type_size, reserved, initial_size)
                    EXCEPT !.node = dynamic])

CvInit(type_size, num_elems, dynamic, room) ==
    /\ CanCall
    /\ cv.p = NULL
    /\ CvReturn(cvector_init(Enter(cv), type_size, num_elems, dynamic, room, 0),
                <<>>,
                [CvRec("cvector_init", type_size, num_elems, room)
                    EXCEPT !.node = dynamic])

CvPushBack(elem, room, ub) ==
    /\ CvLive
    /\ \E r \in {cvector_push_back(Enter(cv), elem, room, 0, ub)} :
       CvReturn(r, IF r.ok THEN Append(cvref, elem) ELSE cvref,
                CvRec("cvector_push_back", elem, room, 0))

CvPopBack ==
    /\ CvLive
    /\ cv.n > 0
    /\ CvReturn(cvector_pop_back(Enter(cv)), Part(cvref, 1, Len(cvref) - 1),
                CvRec("cvector_pop_back", 0, 0, 0))

CvInsert(idx, elem, room) ==
    /\ CvLive
    /\ \E r \in {cvector_insert(Enter(cv), idx, elem, room, 0)} :
       CvReturn(r, IF r.ok THEN RefInsertN(cvref, idx, <<elem>>) ELSE cvref,
                CvRec("cvector_insert", idx, elem, room))

\* What insert_n is handed for elem: one element to replicate
\* (is_same_element 1), an array (is_same_element 0) or NULL, and the
\* elements put in are then what the memory holds.
ElemKinds == {"one", "array", "none"}
ElemOf(kind) ==
    CASE kind = "one" -> <<MaxVal>>
      [] kind = "array" -> CvArray
      [] kind = "none" -> NoElem

CvInsertN(idx, len, kind, room) ==
    /\ CvLive
    /\ \E r \in {cvector_insert_n(Enter(cv), idx, len, ElemOf(kind),
                                  IF kind = "one" THEN 1 ELSE 0, room, 0)} :
       CvReturn(r,
                IF r.ok /\ len > 0
                THEN RefInsertN(cvref, idx,
                                [i \in 1..len |->
                                    CASE kind = "one" -> MaxVal
                                      [] kind = "array" -> CvArray[i]
                                      [] kind = "none" -> At(r, idx + i)])
                ELSE cvref,
                CvRec("cvector_insert_n", idx, len, kind))

CvErase(idx, len) ==
    /\ CvLive
    /\ CvReturn(cvector_erase(Enter(cv), idx, len), RefErase(cvref, idx, len),
                CvRec("cvector_erase", idx, len, 0))

CvEraseFast(idx, len) ==
    /\ CvLive
    /\ \E r \in {cvector_erase_fast(Enter(cv), idx, len)} :
       CvReturn(r, CvView(r), CvRec("cvector_erase_fast", idx, len, 0))

CvResize(new_size, kind, room) ==
    /\ CvLive
    /\ \E r \in {cvector_resize(Enter(cv), new_size, ElemOf(kind), room, 0)} :
       CvReturn(r,
                IF r.ok
                THEN [i \in 1..new_size |->
                         IF i <= Len(cvref) THEN cvref[i]
                         ELSE IF kind = "none" THEN At(r, i) ELSE MaxVal]
                ELSE cvref,
                CvRec("cvector_resize", new_size, kind, room))

CvClear ==
    /\ CvLive
    /\ CvReturn(cvector_clear(Enter(cv)), <<>>, CvRec("cvector_clear", 0, 0, 0))

CvReserve(length, room) ==
    /\ CvLive
    /\ CvReturn(cvector_reserve(Enter(cv), length, room, 0), cvref,
                CvRec("cvector_reserve", length, room, 0))

CvShrinkToFit(room) ==
    /\ CvLive
    /\ CvReturn(cvector_shrink_to_fit(Enter(cv), room), cvref,
                CvRec("cvector_shrink_to_fit", room, 0, 0))

\* SpecVec: a vector object not yet initialised, or a vector over a
\* caller's buffer of ExtLen ints holding 0 .. ExtLen elements, or a vector
\* on the heap of chars, ints or pointers made with the default length and
\* filled by push_back; then VecOps calls on the vector.
RECURSIVE CvFill(_, _, _)
CvFill(v, k, i) ==
    IF i >= k THEN v
    ELSE CvFill(cvector_push_back(v, 1 + (i % MaxVal), SIZE_MAX, 0, "crash"),
                k, i + 1)

CvFillRef(k) == [i \in 1..k |-> 1 + ((i - 1) % MaxVal)]

VecStarts ==
    {[v |-> NewVector, r |-> <<>>]}
    \cup {[v |-> cvector_init_ext(NewVector, FillRef(ExtLen), IntSize, ExtLen,
                                  k, CVECTOR_DATA),
           r |-> FillRef(k)] : k \in 0..ExtLen}
    \cup {[v |-> CvFill(cvector_init(NewVector, h.t, CVECTOR_DEFAULT_LEN, h.d,
                                     SIZE_MAX, 0), k, 0),
           r |-> CvFillRef(k)] :
             h \in {x \in [t : {CharSize, IntSize, PtrSize},
                           d : {CVECTOR_DATA, CVECTOR_FREE_PTR}] :
                       x.d = CVECTOR_FREE_PTR <=> x.t = PtrSize},
             k \in {0, 1}}

InitVec ==
    \E s \in VecStarts :
        /\ Start(Fresh(1, [rul |-> NULL, ruly |-> 0]), NULL, FALSE, 0, 0, VecOps)
        /\ cv = s.v
        /\ cvref = s.r

CvIdx == IF CvLive THEN 0..cv.n ELSE {}

NextVec ==
    \/ \E cb \in BOOLEAN : CvSetCallback(cb)
    \/ \E ts \in {0, IntSize, PtrSize}, reserved \in {1, ExtLen, ExtLen + 1},
          initial_size \in {0, 2},
          dynamic \in {CVECTOR_DATA, CVECTOR_FREE_PTR, 3} :
           CvInitExt(ts, reserved, initial_size, dynamic)
    \/ \E ts \in {0, CharSize, IntSize, PtrSize},
          num_elems \in {CVECTOR_DEFAULT_LEN, ExtLen + 1},
          dynamic \in {CVECTOR_DATA, CVECTOR_FREE_PTR}, room \in {0, SIZE_MAX} :
           CvInit(ts, num_elems, dynamic, room)
    \/ \E elem \in CvVals, room \in Rooms, ub \in Outcomes :
           CvPushBack(elem, room, ub)
    \/ CvPopBack
    \/ \E idx \in CvIdx, room \in Rooms : CvInsert(idx, MaxVal, room)
    \/ \E idx \in CvIdx, len \in {0, 1, 2, SIZE_MAX}, kind \in ElemKinds,
          room \in {0, SIZE_MAX} :
           CvInsertN(idx, len, kind, room)
    \/ \E idx \in CvIdx : \E len \in 0..(cv.n - idx) : CvErase(idx, len)
    \/ \E idx \in CvIdx : \E len \in 0..(cv.n - idx) : CvEraseFast(idx, len)
    \/ \E new_size \in 0..(ExtLen + 1), kind \in {"one", "none"},
          room \in {0, SIZE_MAX} :
           CvResize(new_size, kind, room)
    \/ CvClear
    \/ \E length \in {1, ExtLen + 1, SIZE_MAX}, room \in Rooms :
           CvReserve(length, room)
    \/ \E room \in Rooms : CvShrinkToFit(room)

SpecVec == InitVec /\ [][NextVec]_vars

\* SpecTwin: the calls of a run are made on the lists and on a twin of them,
\* `shadow`, that differs from them in the cached node and the cached index
\* of the lists whose cache is not valid: clist_init leaves the two fields as
\* the memory of the list object held them, and a call that clears the
\* validity bit leaves them as they were.  The twin starts with other values
\* in them and Stale puts any value where the cache of the twin is not valid.
StaleNodes == {NULL, 3}
StaleIndexes == {0, SIZE_MAX}

Stale(l, node, idx) ==
    /\ CanCall
    /\ track
    /\ last.op # "stale"
    /\ ~CacheValid(shadow.ls[l].flags)
    /\ <<node, idx>> # <<shadow.ls[l].rul, shadow.ls[l].ruly>>
    /\ shadow' = [shadow EXCEPT !.ls[l].rul = node, !.ls[l].ruly = idx]
    /\ last' = [NoCall EXCEPT !.op = "stale", !.l = l, !.prev = last.op]
    /\ UNCHANGED <<nxt, prv, val, alloc, ls, released, fault, ref, track,
                   budget, cv, cvref>>

InitTwin ==
    \E n \in {4, MaxLen}, m \in {0, 2} :
        /\ Start(Built(n, m, [rul |-> NULL, ruly |-> 0]),
                 Built(n, m, [rul |-> 1, ruly |-> SIZE_MAX]), TRUE, n, m, TwinOps)
        /\ Idle

NextTwin ==
    \/ Next
    \/ \E l \in Live, node \in StaleNodes, idx \in StaleIndexes :
           Stale(l, node, idx)

SpecTwin == InitTwin /\ [][NextTwin]_vars

\* ------------------------------------------------------------------ claims
\* The part of the state a call can change.
heap == <<nxt, prv, val, alloc, ls, released>>

\* The list the last call was made on.
Called == ls[last.l]

\* C1: after any sequence of calls applied to a list and, in parallel, to a
\* plain reference sequence, the size of the list is the length of the
\* reference sequence and get(list, i) is its i-th element for every i below
\* the size.
C1_RefinesReference ==
    ~fault =>
        \A l \in Lists :
            /\ ls[l].size = Len(ref[l])
            /\ \A i \in 0..(Len(ref[l]) - 1) :
                   clist_get(World, l, i).value = ref[l][i + 1]

\* C2: in every reachable state, a finger cache marked valid has its index
\* below the size and its node is the one found by walking that many steps
\* from head via next.
C2_CacheDesignatesNode ==
    \A l \in Lists :
        CacheValid(ls[l].flags) =>
            /\ ls[l].ruly < ls[l].size
            /\ ls[l].rul = WalkNext(World, ls[l].head, ls[l].ruly)

\* C3: in every reachable state of every list, size is the number of nodes
\* reachable from head via next and from tail via prev, the forward sequence
\* is the reverse of the backward one, head.prev and tail.next are NULL when
\* size > 0, and head and tail are NULL when size = 0.
C3_ChainMatchesSize ==
    \A l \in Lists :
        /\ ls[l].size = Len(Forward(l))
        /\ ls[l].size = Len(Backward(l))
        /\ Forward(l) = Reverse(Backward(l))
        /\ ls[l].size > 0 =>
               /\ ls[l].head # NULL /\ prv[ls[l].head] = NULL
               /\ ls[l].tail # NULL /\ nxt[ls[l].tail] = NULL
        /\ ls[l].size = 0 => ls[l].head = NULL /\ ls[l].tail = NULL

\* C4: clist_pop_back on a list of size 0 does nothing: the state is
\* unchanged and no node is dereferenced.
C4_PopBackEmptyDoesNothing ==
    [][(last'.op = "pop_back" /\ ls[last'.l].size = 0)
           => (~fault' /\ UNCHANGED heap)]_vars

\* C5: clist_erase(list, idx, count) is a no-op, dereferencing no node,
\* whenever idx + count exceeds the size or count is 0, for every idx and
\* count of the size type, those whose machine sum wraps included.
C5_EraseOutOfRangeDoesNothing ==
    [][(/\ last'.op = "erase"
        /\ (last'.a + last'.b > ls[last'.l].size \/ last'.b = 0))
           => (~fault' /\ UNCHANGED heap)]_vars

\* The last call was a get that returned an element.
Got == last.op = "get" /\ ~fault /\ last.ret # NoPayload /\ last.node # NULL

\* C6 as stated: after every successful get(list, index) with index < size
\* the finger cache is valid and holds (returned node, index), for every
\* index in [0, size).
C6_EveryResolveCaches ==
    (Got /\ last.a < last.size) =>
        /\ CacheValid(Called.flags)
        /\ Called.rul = last.node
        /\ Called.ruly = last.a

\* An index one of the four shortcuts of clist_go serves.
Shortcut(idx, size) == idx = 0 \/ idx = 1 \/ idx + 1 = size \/ idx + 2 = size

\* C6 amended: after every successful get(list, index) with index < size
\* that is none of 0, 1, size-2, size-1, the finger cache is valid and holds
\* (returned node, index), whatever the cache was before.
C6_GeneralResolveCaches ==
    (Got /\ last.a < last.size /\ ~Shortcut(last.a, last.size)) =>
        /\ CacheValid(Called.flags)
        /\ Called.rul = last.node
        /\ Called.ruly = last.a

\* A get of a general index has returned, having walked from its anchor.
C6_Witness ==
    /\ Got /\ last.a < last.size /\ ~Shortcut(last.a, last.size)
    /\ last.steps > 0

\* C7: get with index >= size returns NULL and leaves the whole list state
\* unchanged, the cached node, the cached index and the validity bit
\* included; set with index >= size or with a NULL payload changes nothing.
C7_MissChangesNothing ==
    [][/\ (last'.op = "get" /\ last'.a >= ls[last'.l].size)
              => (last'.ret = NoPayload /\ last'.node = NULL /\ ~fault'
                  /\ UNCHANGED heap)
       /\ (/\ last'.op = "set"
           /\ (last'.a >= ls[last'.l].size \/ last'.b = NoPayload))
              => (~fault' /\ UNCHANGED heap)]_vars

\* A get past the end has returned on a list whose cache is valid.
C7_Witness ==
    /\ last.op = "get" /\ last.a >= last.size
    /\ last.size > 0
    /\ CacheValid(Called.flags)

\* C8: a sequence of calls run on a list and on a copy whose cache bit is
\* cleared before every resolve gives the same get results, the same
\* element sequences and the same sizes.
C8_CacheTransparent ==
    track =>
        /\ fault = shadow.fault
        /\ last.ret = last.sret
        /\ \A l \in Lists :
               /\ ls[l].size = shadow.ls[l].size
               /\ Elements(l) = ElementsOf(shadow, l)

\* Every node of every chain and every pool, with repetitions.
Linked == Forward(1) \o Pool(1) \o Forward(2) \o Pool(2)

\* C9: in every reachable state every allocated node is reachable from
\* exactly one chain or one pool, and once.
C9_NodeInOnePlace ==
    \A n \in alloc : Cardinality({i \in 1..Len(Linked) : Linked[i] = n}) = 1

\* C10: in every reachable state the pool count zskb is the number of nodes
\* reachable from the pool head pkb via next, and pkb is NULL exactly when
\* the count is 0.
C10_PoolCount ==
    \A l \in Lists :
        /\ ls[l].zskb = Len(Pool(l))
        /\ (ls[l].pkb = NULL) <=> (ls[l].zskb = 0)

\* The call a step makes is one of the three that add an element.
Inserts == {"insert", "push_front", "push_back"}

\* C11: insert(list, idx, payload) with idx > size returns failure and
\* leaves the list unchanged: chain, size, cache, pool and pool count are as
\* before, and no node is allocated or taken from the pool.
C11_InsertPastEndDoesNothing ==
    [][(last'.op = "insert" /\ last'.a > ls[last'.l].size)
           => (last'.ret = EXIT_FAILURE /\ ~fault' /\ UNCHANGED heap)]_vars

\* An insert past the end has returned on a list with a node in its pool.
C11_Witness ==
    /\ last.op = "insert" /\ last.a > last.size
    /\ last.ret = EXIT_FAILURE
    /\ last.size > 0
    /\ Called.zskb > 0

\* The allocator has nothing to give a call granted `mem` allocations.
NoMemory(mem) == mem = 0 \/ alloc = DOMAIN nxt

\* C12: when the allocation of the node fails during an insert with
\* idx <= size, the insert returns failure and the list is as it was before
\* the call; and an insert with idx <= size that finds a node in the pool
\* does not fail.
C12_FailedAllocationChangesNothing ==
    [][(last'.op \in Inserts /\ last'.a <= ls[last'.l].size) =>
           /\ (NoMemory(last'.c) /\ ls[last'.l].zskb = 0)
                  => (last'.ret = EXIT_FAILURE /\ ~fault' /\ UNCHANGED heap)
           /\ (ls[last'.l].zskb > 0 /\ ~fault')
                  => last'.ret = EXIT_SUCCESS
           /\ (last'.ret = EXIT_FAILURE /\ ~fault')
                  => (/\ NoMemory(last'.c) /\ ls[last'.l].zskb = 0
                      /\ UNCHANGED heap)]_vars

\* An insert in range has failed for want of memory, on a list with a valid
\* cache.
C12_Witness ==
    /\ last.op = "insert" /\ last.a <= last.size
    /\ last.c = 0 /\ last.ret = EXIT_FAILURE
    /\ last.size > 0
    /\ CacheValid(Called.flags)

\* C13: a successful insert calls malloc if and only if the pool is empty,
\* and an insert served by the pool allocates nothing and takes one off the
\* pool count; an erase of k elements adds k to the pool count, so the k
\* inserts after it are served by the pool.
C13_PoolServesInserts ==
    [][/\ (last'.op \in Inserts /\ last'.ret = EXIT_SUCCESS /\ ~fault') =>
              /\ (last'.steps = 1) <=> (ls[last'.l].zskb = 0)
              /\ (ls[last'.l].zskb > 0) =>
                     /\ alloc' = alloc
                     /\ ls'[last'.l].zskb = ls[last'.l].zskb - 1
                     /\ last'.node = ls[last'.l].pkb
       /\ (/\ last'.op = "erase" /\ ~fault'
           /\ last'.a + last'.b <= ls[last'.l].size) =>
              ls'[last'.l].zskb = ls[last'.l].zskb + last'.b]_vars

\* An insert has been served by a pool that held at least two nodes.
C13_Witness ==
    /\ last.op \in Inserts /\ last.ret = EXIT_SUCCESS
    /\ last.steps = 0
    /\ Called.zskb > 0

\* The calls that remove elements without tearing the list down.
Removes == {"erase", "pop_front", "pop_back", "clear", "filter", "resize"}

\* C14: erase, pop_front, pop_back, clear, filter and a shrinking resize free
\* no node: every node removed goes on the pool of the list, whose count
\* grows by the number removed; only shrink_to_fit and destroy free nodes.
C14_RemovedNodesArePooled ==
    [][~fault' =>
           /\ (/\ last'.op \in Removes
               /\ ls'[last'.l].size <= ls[last'.l].size) =>
                  /\ alloc' = alloc
                  /\ ls'[last'.l].zskb =
                         ls[last'.l].zskb + (ls[last'.l].size - ls'[last'.l].size)
           /\ (last'.op \notin {"shrink_to_fit", "destroy"}) =>
                  alloc \subseteq alloc']_vars

\* A call has removed two elements or more from a list.
C14_Witness ==
    /\ last.op \in Removes /\ ~fault
    /\ Called.size + 2 <= last.size
    /\ Called.zskb >= 2

SpliceInRange(rec, size, dsize, same) ==
    /\ rec.op = "splice"
    /\ rec.l # rec.c
    /\ rec.b > 0
    /\ rec.a + rec.b <= size
    /\ rec.node <= dsize
    /\ same

SameKind(s, d) ==
    /\ ls[s].type_size = ls[d].type_size
    /\ ls[s].flags % 2 = ls[d].flags % 2

\* C16: a successful splice(source, idx, count, dest, pos) conserves
\* size(source) + size(dest); afterwards dest[pos .. pos+count) is the former
\* source[idx .. idx+count) in the same order, the other elements of dest
\* keep their order around it, and source is its former sequence without
\* that run.
C16_SpliceMovesTheRun ==
    [][SpliceInRange(last', ls[last'.l].size, ls[last'.c].size,
                     SameKind(last'.l, last'.c)) =>
           /\ ~fault'
           /\ ls'[last'.l].size + ls'[last'.c].size
                  = ls[last'.l].size + ls[last'.c].size
           /\ ls'[last'.l].size = ls[last'.l].size - last'.b
           /\ val' = val
           /\ Trace(nxt', ls'[last'.c].head, Cardinality(DOMAIN nxt) + 1)
                  = Part(Forward(last'.c), 1, last'.node)
                    \o Part(Forward(last'.l), last'.a + 1, last'.a + last'.b)
                    \o Part(Forward(last'.c), last'.node + 1,
                            Len(Forward(last'.c)))
           /\ Trace(nxt', ls'[last'.l].head, Cardinality(DOMAIN nxt) + 1)
                  = Part(Forward(last'.l), 1, last'.a)
                    \o Part(Forward(last'.l), last'.a + last'.b + 1,
                            Len(Forward(last'.l)))]_vars

\* C17: splice leaves both lists unchanged, and dereferences no node, when
\* source and dest are the same list, when idx + count > size(source), when
\* pos > size(dest), when count is 0, or when the two lists differ in
\* element size or ownership mode.
C17_SpliceOutOfRangeDoesNothing ==
    [][(/\ last'.op = "splice"
        /\ \/ last'.l = last'.c
           \/ last'.a + last'.b > ls[last'.l].size
           \/ last'.node > ls[last'.c].size
           \/ last'.b = 0
           \/ ~SameKind(last'.l, last'.c))
           => (~fault' /\ UNCHANGED heap)]_vars

\* C18: after filter(list, predicate) the list holds exactly the elements
\* the predicate returned non-zero for, in their original order, whatever the
\* list held and whatever its cache was; size is the number of elements kept.
C18_FilterKeepsInOrder ==
    [][last'.op = "filter" =>
           /\ ~fault'
           /\ val' = val
           /\ Trace(nxt', ls'[last'.l].head, Cardinality(DOMAIN nxt) + 1)
                  = SelectSeq(Forward(last'.l), LAMBDA n : val[n] \in last'.a)
           /\ Trace(prv', ls'[last'.l].tail, Cardinality(DOMAIN nxt) + 1)
                  = SelectSeq(Backward(last'.l), LAMBDA n : val[n] \in last'.a)
           /\ ls'[last'.l].size
                  = Len(SelectSeq(Forward(last'.l), LAMBDA n : val[n] \in last'.a))]_vars

\* The configuration clist_init accepts: a non-zero element size, one of the
\* two modes and, in the free-on-remove mode, the size of a pointer.
WellConfigured(type_size, dynamic) ==
    ~ \/ type_size = 0
      \/ dynamic \notin {CLIST_PAYLOAD_IGNORE, CLIST_PAYLOAD_FREE}
      \/ (dynamic = CLIST_PAYLOAD_FREE /\ type_size # PtrSize)

\* The list object l is an empty list of the configuration given.
EmptyList(L, type_size, dynamic) ==
    /\ L.size = 0 /\ L.head = NULL /\ L.tail = NULL
    /\ L.pkb = NULL /\ L.zskb = 0
    /\ ~CacheValid(L.flags)
    /\ L.type_size = type_size
    /\ L.flags % 2 = dynamic

\* C19: construction fails, producing no list, when the element size is 0,
\* when the mode is neither discard nor free-on-remove, or when the mode is
\* free-on-remove and the element size is not that of a pointer; otherwise
\* (clist_new: and when malloc gives the list object) it succeeds and yields
\* a list of size 0 with NULL head and tail, an empty pool and an invalid
\* cache.
C19_Construction ==
    [][/\ last'.op = "clist_init" =>
              IF WellConfigured(last'.a, last'.b)
              THEN /\ last'.ret = EXIT_SUCCESS
                   /\ EmptyList(ls'[last'.l], last'.a, last'.b)
                   /\ UNCHANGED <<nxt, prv, val, alloc, released>>
              ELSE /\ last'.ret = EXIT_FAILURE
                   /\ UNCHANGED heap
       /\ last'.op = "clist_new" =>
              IF WellConfigured(last'.a, last'.b) /\ last'.c > 0
              THEN /\ last'.ret = last'.l
                   /\ EmptyList(ls'[last'.l], last'.a, last'.b)
                   /\ UNCHANGED <<nxt, prv, val, alloc, released>>
              ELSE /\ last'.ret = NULL
                   /\ UNCHANGED heap]_vars

\* A list object torn down by destroy has been constructed again, in the
\* free-on-remove mode.
C19_Witness ==
    /\ last.op = "clist_init" /\ last.prev = "destroy"
    /\ last.b = CLIST_PAYLOAD_FREE
    /\ last.ret = EXIT_SUCCESS
    /\ Called.flags = CLIST_PAYLOAD_FREE

\* The nodes of the chain and of the pool of list l, in order.
Owned(l) == Forward(l) \o Pool(l)

\* C20: after destroy(list) from any reachable state, size is 0, head and
\* tail are NULL, the pool is empty with count 0, the cache is invalid, and
\* every node that was in the chain or in the pool has been freed exactly
\* once.
C20_DestroyFreesAll ==
    [][last'.op = "destroy" =>
           /\ ~fault'
           /\ ls'[last'.l].size = 0
           /\ ls'[last'.l].head = NULL /\ ls'[last'.l].tail = NULL
           /\ ls'[last'.l].pkb = NULL /\ ls'[last'.l].zskb = 0
           /\ ~CacheValid(ls'[last'.l].flags)
           /\ SeqSet(Owned(last'.l)) \subseteq alloc
           /\ Cardinality(SeqSet(Owned(last'.l))) = Len(Owned(last'.l))
           /\ alloc' = alloc \ SeqSet(Owned(last'.l))]_vars

\* The nodes a call has taken out of the chain of list l.
Gone(l) ==
    SeqSet(Forward(l))
        \ SeqSet(Trace(nxt', ls'[l].head, Cardinality(DOMAIN nxt) + 1))

\* C21: in the free-on-remove mode every element removed by erase, pop,
\* clear, filter, a shrinking resize or destroy has its payload pointer
\* passed to free() exactly once; payloads of elements still in a chain and
\* of elements moved by splice are not released, and in the discard mode no
\* payload is ever released.
C21_RemovedPayloadsReleasedOnce ==
    [][~fault' =>
           IF /\ last'.op \in Removes \cup {"destroy"}
              /\ ls[last'.l].flags % 2 = CLIST_PAYLOAD_FREE
           THEN \A v \in Vals :
                    released'[v] = released[v]
                        + Cardinality({n \in Gone(last'.l) : val[n] = v})
           ELSE released' = released]_vars

\* The chain of list l, head to tail, after the step.
After(l) == Trace(nxt', ls'[l].head, Cardinality(DOMAIN nxt) + 1)

Smaller(a, b) == IF a < b THEN a ELSE b

\* C22: after a successful resize(list, n, fill) the size is n, the first
\* min(old size, n) elements are the former ones, unchanged and in place, and
\* every appended element equals fill: a shrink removes from the tail only, a
\* growth appends at the tail only.
C22_ResizeKeepsPrefix ==
    [][(last'.op = "resize" /\ ~fault' /\ last'.ret = EXIT_SUCCESS) =>
           /\ ls'[last'.l].size = last'.a
           /\ Len(After(last'.l)) = last'.a
           /\ Part(After(last'.l), 1, Smaller(last'.size, last'.a))
                  = Part(Forward(last'.l), 1, Smaller(last'.size, last'.a))
           /\ \A i \in 1..Len(After(last'.l)) :
                  IF i <= Smaller(last'.size, last'.a)
                  THEN val'[After(last'.l)[i]] = val[After(last'.l)[i]]
                  ELSE last'.b # NoPayload
                           => val'[After(last'.l)[i]] = last'.b]_vars

\* C23: every function of the interface, handed NULL for the list, returns
\* its error value or does nothing, and dereferences nothing: size gives 0,
\* empty gives 1, head, tail, go and get give NULL, insert, push and resize
\* give failure, and erase, pop, clear, trim, destroy, foreach, filter and
\* splice leave every list and the heap as they were.
C23_NullListIsHarmless ==
    [][last'.op = "null" =>
           /\ ~fault'
           /\ UNCHANGED heap
           /\ last'.a = "size" => last'.ret = 0
           /\ last'.a = "empty" => last'.ret = 1
           /\ last'.a \in {"head", "tail", "go"} => last'.ret = NULL
           /\ last'.a = "get" => last'.ret = NoPayload
           /\ last'.a \in {"insert", "push_front", "push_back", "resize"}
                  => last'.ret = EXIT_FAILURE]_vars

C23_Witness ==
    /\ last.op = "null" /\ last.a = "clear" /\ ~fault
    /\ ls[1].size > 0

\* The elements a call asks the vector to take in.
Added(rec) == IF rec.op = "cvector_insert_n" THEN rec.b ELSE 1

\* C24: a vector over a caller's buffer, made by cvector_init_ext with
\* reserved = R, never holds more than R elements and keeps the capacity R;
\* a push_back, insert or insert_n that would exceed R calls the error
\* callback (when one is set) and leaves the size and the elements unchanged.
C24_ExternalNeverGrows ==
    [][(External(cv') /\ cv'.p # NULL /\ ~fault') =>
           /\ cv'.n <= cv'.m
           /\ last'.op # "cvector_init_ext" => cv'.m = cv.m
           /\ (/\ last'.op \in {"cvector_push_back", "cvector_insert",
                                "cvector_insert_n"}
               /\ cv.n + Added(last') > cv.m)
                  => /\ cv'.n = cv.n
                     /\ CvView(cv') = CvView(cv)
                     /\ cv'.buf = cv.buf
                     /\ cv.cb => Len(cv'.err) = 1]_vars

C24_Witness ==
    /\ last.op = "cvector_push_back" /\ ~fault
    /\ External(cv) /\ cv.p # NULL
    /\ cv.n = ExtLen /\ cv.m = ExtLen
    /\ cv.err = <<SizeT(ExtLen + 1)>>

\* The number of elements of size type_size a cv_ui can count.
MaxCount(type_size) == IF type_size = 0 THEN 0 ELSE SIZE_MAX \div type_size

\* C25: cvector_init_ext fails (the data pointer is NULL and the error
\* callback, when one is set, is called) exactly when the type size is 0, or
\* the mode is free-pointer and the type size is not the size of a pointer,
\* or initial_size > reserved, or reserved exceeds the greatest element
\* count; when it succeeds the size is initial_size and the capacity is
\* reserved.
C25_InitExtFailsExactlyWhen ==
    [][last'.op = "cvector_init_ext" =>
           IF \/ last'.a = 0
              \/ (last'.node = CVECTOR_FREE_PTR /\ last'.a # PtrSize)
              \/ last'.c > last'.b
              \/ last'.b > MaxCount(last'.a)
           THEN /\ cv'.p = NULL
                /\ Len(cv'.err) = IF cv.cb THEN 1 ELSE 0
           ELSE /\ cv'.p # NULL
                /\ cv'.err = <<>>
                /\ cv'.n = last'.c
                /\ cv'.m = last'.b]_vars

C25_Witness ==
    /\ last.op = "cvector_init_ext"
    /\ last.a = IntSize /\ last.b = ExtLen + 1 /\ last.c = 2
    /\ cv.p = NULL
    /\ cv.err = <<ExtLen + 1>>

\* C26: the vector refines the reference sequence: after any calls of
\* push_back, pop_back, insert, insert_n (one element replicated, or an
\* array), erase, resize with a fill element, clear, reserve and
\* shrink_to_fit, the size of the vector is the length of the reference
\* sequence and its elements are those of the reference sequence, in order.
C26_VectorRefinesReference ==
    (cv.p # NULL /\ ~fault) =>
        /\ cv.n = Len(cvref)
        /\ CvView(cv) = cvref

\* The number of the elements of s at the positions in `at` that equal x.
Count(s, at, x) == Cardinality({i \in at : i \in DOMAIN s /\ s[i] = x})

\* C27: cvector_erase_fast(pv, idx, len) with idx + len <= size reduces the
\* size by len and leaves exactly the elements that were outside
\* [idx, idx + len), as a multiset; the elements before idx keep their
\* places.
C27_EraseFastKeepsTheRest ==
    [][(last'.op = "cvector_erase_fast" /\ last'.a + last'.b <= cv.n) =>
           /\ ~fault'
           /\ cv'.n = cv.n - last'.b
           /\ Part(CvView(cv'), 1, last'.a) = Part(CvView(cv), 1, last'.a)
           /\ \A x \in Vals \cup {NoPayload} :
                  Count(CvView(cv'), 1..cv'.n, x)
                      = Count(CvView(cv),
                              (1..cv.n) \ ((last'.a + 1)..(last'.a + last'.b)),
                              x)]_vars

C27_Witness ==
    /\ last.op = "cvector_erase_fast" /\ ~fault
    /\ last.a = 0 /\ last.b = 1 /\ last.size = 3
    /\ cv.n = 2
    /\ At(cv, 1) # At(cv, 2)
    /\ At(cv, 1) = 2

\* A get of the list at the general branch of clist_go has found its node:
\* the index is in range and none of the four shortcuts serves it.
Walked(rec, L) ==
    /\ rec.op = "get"
    /\ rec.a < L.size
    /\ ~Shortcut(rec.a, L.size)
    /\ rec.node # NULL /\ rec.node # BAD

Dist(a, b) == IF a < b THEN b - a ELSE a - b

\* The least of the distances of idx from the head, from the tail and, when
\* the cache is valid, from the cached index.
MinSteps(L, idx) ==
    IF CacheValid(L.flags)
    THEN Smaller(Smaller(idx, L.size - 1 - idx), Dist(idx, L.ruly))
    ELSE Smaller(idx, L.size - 1 - idx)

\* C28: resolving index 0, index 1 (when size > 1), index size-1 or index
\* size-2 follows no link of a walk and leaves the cache, its node, its index
\* and its validity, as it was.
C28_ShortcutsLeaveTheCache ==
    [][(/\ last'.op = "get" /\ ~fault'
        /\ last'.a < ls[last'.l].size
        /\ Shortcut(last'.a, ls[last'.l].size)) =>
           /\ last'.steps = 0
           /\ last'.c = "none"
           /\ ls'[last'.l].rul = ls[last'.l].rul
           /\ ls'[last'.l].ruly = ls[last'.l].ruly
           /\ ls'[last'.l].flags = ls[last'.l].flags
           /\ UNCHANGED heap]_vars

C28_Witness ==
    /\ last.op = "get" /\ ~fault
    /\ last.size >= 5 /\ last.a + 1 = last.size
    /\ last.node = Called.tail
    /\ CacheValid(Called.flags)
    /\ Called.ruly + 1 < last.a

\* C29: every successful resolve of an index that no shortcut
\* serves follows min(index, size-1-index, and with a valid cache
\* |index - cached index|) links.
C29_WalksTheMinimum ==
    [][(Walked(last', ls[last'.l]) /\ ~fault') =>
           last'.steps = MinSteps(ls[last'.l], last'.a)]_vars

\* The cache is valid and the cached index is as near to idx as anything,
\* and no nearer than the head or than the tail.
Tie(L, idx) ==
    /\ CacheValid(L.flags)
    /\ Dist(idx, L.ruly) = MinSteps(L, idx)
    /\ Dist(idx, L.ruly) \in {idx, L.size - 1 - idx}

\* C30 as stated: when the cache is valid and the distance from the cached
\* index is the least and equals the distance from the head or from the
\* tail, the resolver starts from the head or the tail, not from the cache.
C30_EndsPreferredOnTie ==
    [][(Walked(last', ls[last'.l]) /\ ~fault' /\ Tie(ls[last'.l], last'.a)) =>
           last'.c \in {"head", "tail"}]_vars

\* C30 amended: on such a tie the resolver starts from the head when the
\* index is below the cached index and the head is as near as the cache, and
\* from the cache in every other case: on a tie with the tail it starts from
\* the cache.
C30_TieGoesToHeadOrCache ==
    [][(Walked(last', ls[last'.l]) /\ ~fault' /\ Tie(ls[last'.l], last'.a)) =>
           last'.c = IF /\ last'.a < ls[last'.l].ruly
                        /\ last'.a = Dist(last'.a, ls[last'.l].ruly)
                     THEN "head"
                     ELSE "cache"]_vars

C30_Witness ==
    /\ Walked(last, [size |-> last.size]) /\ ~fault
    /\ last.cached
    /\ last.c = "cache"
    /\ last.steps > 0
    /\ last.steps = last.size - 1 - last.a
    /\ last.a > Called.ruly - last.steps

\* The links clist_go follows to resolve idx in list l as it is, and with
\* the validity bit of its cache cleared first.
StepsNow(l, idx) == clist_go(World, l, idx).steps

StepsUncached(l, idx) ==
    clist_go([World EXCEPT !.ls[l].flags = ClearCacheBit(@)], l, idx).steps

\* C31: for every list with a valid cache and every index below its size,
\* the resolver follows no more links than it would follow for the same list
\* and index with the cache invalid.
C31_CacheNeverWorse ==
    \A l \in Lists :
        CacheValid(ls[l].flags) =>
            \A idx \in 0..(ls[l].size - 1) :
                StepsNow(l, idx) <= StepsUncached(l, idx)

C31_Witness ==
    /\ ~fault
    /\ \E l \in Lists :
           /\ CacheValid(ls[l].flags)
           /\ ls[l].size >= 6
           /\ \E idx \in 0..(ls[l].size - 1) :
                  /\ StepsNow(l, idx) > 0
                  /\ StepsNow(l, idx) + 1 < StepsUncached(l, idx)

\* A forward scan of list l by index, clist_get(l, i), clist_get(l, i + 1),
\* .. up to the last index: whether it ran to its end and the links its
\* resolves followed in all.
RECURSIVE Scan(_, _, _, _)
Scan(w, l, i, total) ==
    IF i >= w.ls[l].size THEN [done |-> TRUE, steps |-> total]
    ELSE LET g == clist_get(w, l, i)
         IN  IF g.w.fault THEN [done |-> FALSE, steps |-> total]
             ELSE Scan(g.w, l, i + 1, total + g.steps)

\* The indexes next to idx in a list of `size` elements.
Beside(idx, size) == {j \in {idx - 1, idx + 1} : 0 <= j /\ j < size}

\* C32: right after a resolve of an index no shortcut serves, a resolve of
\* the index before or after it follows at most one link; and a forward scan
\* get(0), get(1), .., get(size-1) of a list follows at most size links in
\* all, whatever its cache held at the start.
C32_ScansStayOneStepAway ==
    /\ (Walked(last, Called) /\ ~fault) =>
           \A j \in Beside(last.a, Called.size) : StepsNow(last.l, j) <= 1
    /\ \A l \in Lists :
           Scan(World, l, 0, 0).done => Scan(World, l, 0, 0).steps <= ls[l].size

C32_Witness ==
    /\ Walked(last, Called) /\ ~fault
    /\ last.size >= 7 /\ last.a = 3
    /\ last.steps = 3
    /\ StepsNow(last.l, 4) = 1
    /\ StepsNow(last.l, 2) = 1
    /\ Scan(World, last.l, 0, 0).done
    /\ Scan(World, last.l, 0, 0).steps = last.size - 4

\* An insert (clist_insert, or clist_push_front and clist_push_back that
\* call it) has linked its node in: rec.a is the index it was given.
Inserted(rec) ==
    /\ rec.op \in {"insert", "push_front", "push_back"}
    /\ rec.ret = EXIT_SUCCESS

\* What C33 says of the cache of a list that was L and is M after an insert
\* at idx of `node`, `shifted` being the cached index it says an insert at 0
\* leaves.
InsertCacheRule(L, M, idx, node, shifted) ==
    /\ idx = 0 =>
           /\ M.rul = L.rul
           /\ CacheValid(M.flags) = CacheValid(L.flags)
           /\ M.ruly = shifted
    /\ (0 < idx /\ idx < L.size) =>
           /\ CacheValid(M.flags)
           /\ M.rul = node
           /\ M.ruly = idx
    /\ (idx = L.size /\ L.size > 0) =>
           /\ M.rul = L.rul
           /\ M.ruly = L.ruly
           /\ M.flags = L.flags

\* C33 as stated: after a successful insert at idx in a list of n elements,
\* idx = 0 leaves the cached node and the validity bit and makes the cached
\* index one greater; 0 < idx < n makes the cache (new node, idx), valid;
\* idx = n > 0 leaves the cache as it was.
C33_InsertCacheRule ==
    [][(Inserted(last') /\ ~fault') =>
           InsertCacheRule(ls[last'.l], ls'[last'.l], last'.a, last'.node,
                           ls[last'.l].ruly + 1)]_vars

\* C33 amended: the same, the cached index after an insert at 0 being the
\* former one plus one in size_t: an index of SIZE_MAX, which the field of a
\* cache that is not valid may hold, becomes 0.
C33_InsertCacheRuleWrapping ==
    [][(Inserted(last') /\ ~fault') =>
           InsertCacheRule(ls[last'.l], ls'[last'.l], last'.a, last'.node,
                           SizeT(ls[last'.l].ruly + 1))]_vars

C33_Witness ==
    /\ Inserted(last) /\ ~fault
    /\ last.op = "insert"
    /\ last.a = 0
    /\ last.cached
    /\ CacheValid(Called.flags)
    /\ Called.ruly >= 3
    /\ Called.size >= 6

\* The node at index i of the chain that starts at `head` and follows f
\* (BAD: the chain has no such node).
NodeAt(f, head, i) ==
    LET chain == Trace(f, head, Cardinality(DOMAIN f) + 1)
    IN  IF i < Len(chain) THEN chain[i + 1] ELSE BAD

\* An erase whose run idx .. idx+count-1 lies within a list of `size`
\* elements has returned.
Erased(rec, size) ==
    /\ rec.op = "erase"
    /\ rec.b > 0
    /\ rec.a + rec.b <= size

\* C34: after a successful erase(list, idx, count), if idx > 0 and more than
\* one element remains at the positions idx and after, the cache is valid
\* and is (the node now at idx, idx); otherwise, if the cached index before
\* the call was idx or more, the cache is not valid.
C34_EraseCacheRule ==
    [][(Erased(last', ls[last'.l].size) /\ ~fault') =>
           IF last'.a > 0 /\ ls'[last'.l].size - last'.a > 1
           THEN /\ CacheValid(ls'[last'.l].flags)
                /\ ls'[last'.l].ruly = last'.a
                /\ ls'[last'.l].rul = NodeAt(nxt', ls'[last'.l].head, last'.a)
           ELSE ls[last'.l].ruly >= last'.a =>
                    ~CacheValid(ls'[last'.l].flags)]_vars

\* The cache of a list that is valid designates the node at its index.
Designates(f, L) == CacheValid(L.flags) => L.rul = NodeAt(f, L.head, L.ruly)

\* The cache of a list that was L and is M is the one it had, valid, with an
\* index below `bound`.
CacheKeptBelow(L, M, bound) ==
    /\ CacheValid(L.flags)
    /\ M.rul = L.rul
    /\ M.ruly = L.ruly
    /\ M.ruly < bound

C36_FilterVisitsEachOnceBackwards ==
    [][last'.op = "filter" =>
           /\ ~fault'
           /\ Len(last'.ret) = ls[last'.l].size
           /\ last'.ret = Reverse(Elements(last'.l))]_vars

\* C37: after every call on a vector that was initialised, its size is at
\* most its capacity and its end pointer f is p + size * type_size (the
\* model keeps f as the count of elements between p and f), so that the next
\* push_back writes slot `size` of the block.
C37_EndPointerFollowsSize ==
    (cv.p # NULL /\ ~fault) =>
        /\ cv.n <= cv.m
        /\ cv.f = cv.n

\* The nodes the lists account for: the sizes and the pool counts, summed.
Accounted == ls[1].size + ls[1].zskb + ls[2].size + ls[2].zskb

\* C38: across the lists and any sequence of calls, splices between lists
\* included, the nodes allocated and not freed are as many as the sizes and
\* the pool counts of all the lists together; no node of a chain has been
\* freed, and none of a pool, which would be freed a second time.
C38_NodesAccountedFor ==
    /\ Cardinality(alloc) = Accounted
    /\ \A l \in Lists :
           /\ SeqSet(Forward(l)) \subseteq alloc
           /\ SeqSet(Pool(l)) \subseteq alloc

\* C39: clist_init never sets the cached node and the cached index, and they
\* keep what they held when the cache is dropped; two runs of the same calls
\* on lists that differ only in those two fields while the validity bit is
\* clear give the same return values, the same element sequences, the same
\* validity bits and the same links walked by every resolve, and where the
\* cache is valid the same cache.
C39_StaleCacheFieldsUnseen ==
    track =>
        /\ fault = shadow.fault
        /\ last.ret = last.sret
        /\ \A l \in Lists :
               /\ ls[l].size = shadow.ls[l].size
               /\ Elements(l) = ElementsOf(shadow, l)
               /\ CacheValid(ls[l].flags) = CacheValid(shadow.ls[l].flags)
               /\ CacheValid(ls[l].flags) =>
                      /\ ls[l].rul = shadow.ls[l].rul
                      /\ ls[l].ruly = shadow.ls[l].ruly
               /\ \A idx \in 0..(ls[l].size - 1) :
                      StepsNow(l, idx) = clist_go(shadow, l, idx).steps

C39_Witness ==
    /\ track /\ ~fault
    /\ last.op = "erase"
    /\ last.prev = "stale"
    /\ last.a = 2 /\ last.b = 1 /\ last.size = 4
    /\ ~CacheValid(Called.flags)
    /\ Called.ruly < last.a
    /\ shadow.ls[last.l].ruly > last.a
    /\ Called.rul # shadow.ls[last.l].rul

\* The nodes a growing resize of list l can take: those of its pool, and
\* those malloc grants (`mem` allocations, while the heap has room).
Obtainable(l, mem) ==
    ls[l].zskb + Smaller(mem, Cardinality(Free(World)))

\* A growing resize that ran out of nodes: the last call asked for more
\* elements than the list held and for more nodes than it could take.
GrowthCutShort(rec, l) ==
    /\ rec.op = "resize"
    /\ rec.a > ls[l].size
    /\ rec.a - ls[l].size > Obtainable(l, rec.c)

\* The payloads of the chain that starts at `head` and follows f.
PayloadsOf(f, v, head) ==
    LET chain == Trace(f, head, Cardinality(DOMAIN f) + 1)
    IN  [i \in 1..Len(chain) |-> v[chain[i]]]

\* The invariants of the lists: chain and size, pool and pool count, cache.
WellFormed ==
    /\ C2_CacheDesignatesNode
    /\ C3_ChainMatchesSize
    /\ C10_PoolCount

\* C40: when the allocation of a node fails part-way through a growing
\* resize(list, n, fill), resize returns failure and appends no more: the
\* list keeps the elements appended before the failure after its former
\* contents, old size <= size < n, and the invariants of the lists (chain,
\* pool count, cache) hold as they did.
C40_FailedGrowthKeepsWhatItAppended ==
    [][GrowthCutShort(last', last'.l) =>
           /\ ~fault'
           /\ last'.ret = EXIT_FAILURE
           /\ ls[last'.l].size <= ls'[last'.l].size
           /\ ls'[last'.l].size < last'.a
           /\ ls'[last'.l].size = ls[last'.l].size + Obtainable(last'.l, last'.c)
           /\ Part(PayloadsOf(nxt', val', ls'[last'.l].head), 1,
                   Len(Elements(last'.l))) = Elements(last'.l)
           /\ WellFormed => WellFormed']_vars

====
